---- MODULE Spec2Model ----
(***************************************************************************)
(* The RabbitMQ consumer of the IoT pipeline (src/consumer): one delivery  *)
(* is decoded, cleaned by ETLProcessor, written to PostgreSQL              *)
(* (DatabaseManager.save_to_postgres, with its alert rules) and to Redis   *)
(* (DatabaseManager.save_to_redis), and then acknowledged.                 *)
(***************************************************************************)
EXTENDS Integers, Sequences, FiniteSets, TLC

(***************************************************************************)
(* JSON scalars as they arrive in a payload: null, a number, or a string   *)
(* that is not a number.  Python raises TypeError when it orders a string  *)
(* against a number, and treats None and 0 as false.                       *)
(***************************************************************************)
None == [t |-> "none", v |-> 0]

Str == [t |-> "str", v |-> 0]

Num(n) == [t |-> "num", v |-> n]

IsNum(x) == x.t = "num"

\* the empty string and the float nan, which json.loads accepts as NaN
Empty == [t |-> "empty", v |-> 0]

NaN == [t |-> "nan", v |-> 0]

Truthy(x) == x.t \in {"str", "nan"} \/ (x.t = "num" /\ x.v # 0)

\* `if d.get(f): if d[f] < lo or d[f] > hi` raises on a non-empty string
CmpRaises(x) == x.t = "str"

\* bounds of the model
MaxDeliveries == 2

DeviceNames == {"d1", "d2"}

SensorTypes == {"aire", "sonido", "agua"}

AlertTypes ==
    {"high_co2", "high_temperature", "low_temperature", "high_noise",
     "low_water_level", "low_battery"}

\* payload of a message, a missing key reads as None / ""
EmptyData ==
    [device_name |-> "", timestamp |-> "", battery |-> None,
     co2 |-> None, temperature |-> None, humidity |-> None, pressure |-> None,
     laeq |-> None, lai |-> None, laimax |-> None,
     water_level |-> None, distance |-> None, dew_point |-> None,
     air_quality_category |-> "", temperature_category |-> "",
     noise_category |-> "", tank_status |-> "", data_quality |-> "",
     latitude |-> None, longitude |-> None]

(***************************************************************************)
(* ETLProcessor.  Each process_* operator returns [exc, data]: exc names   *)
(* the exception that escapes ("none" when the call returns).              *)
(***************************************************************************)
\* `if d.get(f): if d[f] < lo or d[f] > hi: d[f] = None`
ValidateRange(x, lo, hi) ==
    IF Truthy(x) /\ (x.v < lo \/ x.v > hi) THEN None ELSE x

_validate_air_data(data) ==
    [data EXCEPT !.co2 = ValidateRange(@, 300, 5000),
                 !.temperature = ValidateRange(@, 0 - 10, 50),
                 !.humidity = ValidateRange(@, 0, 100),
                 !.pressure = ValidateRange(@, 500, 1100)]

\* round(dew_point, 2) of the Magnus formula (lines 161-165) in hundredths of
\* a degree, for the temperatures and humidities the model's records carry
Magnus(temperature, humidity) ==
    CASE temperature = 0 - 5 /\ humidity = 50 -> 0 - 1380
      [] temperature = 0 - 5 /\ humidity = 100 -> 0 - 500
      [] temperature = 0 /\ humidity = 50 -> 0 - 917
      [] temperature = 0 /\ humidity = 100 -> 0
      [] temperature = 20 /\ humidity = 50 -> 925
      [] temperature = 20 /\ humidity = 100 -> 2000
      [] temperature = 35 /\ humidity = 50 -> 2300
      [] temperature = 35 /\ humidity = 100 -> 3500

\* lines 155-167
_calculate_dew_point(temperature, humidity) ==
    IF humidity.v <= 0 THEN None ELSE Num(Magnus(temperature.v, humidity.v))

_categorize_air_quality(co2) ==
    IF co2 < 450 THEN "Excelente"
    ELSE IF co2 < 600 THEN "Buena"
    ELSE IF co2 < 1000 THEN "Moderada"
    ELSE IF co2 < 2000 THEN "Pobre"
    ELSE "Peligrosa"

_categorize_temperature(temp) ==
    IF temp < 15 THEN "Frio"
    ELSE IF temp < 22 THEN "Fresco"
    ELSE IF temp < 26 THEN "Confortable"
    ELSE IF temp < 30 THEN "Calido"
    ELSE "Caluroso"

_categorize_noise(laeq) ==
    IF laeq < 50 THEN "Silencioso"
    ELSE IF laeq < 65 THEN "Moderado"
    ELSE IF laeq < 75 THEN "Ruidoso"
    ELSE IF laeq < 85 THEN "Muy ruidoso"
    ELSE "Peligroso"

_categorize_tank_status(water_level) ==
    IF water_level < 20 THEN "Critico"
    ELSE IF water_level < 40 THEN "Bajo"
    ELSE IF water_level < 60 THEN "Medio"
    ELSE IF water_level < 80 THEN "Alto"
    ELSE "Lleno"

\* max(0, min(100, 100 - distance)); float(distance) failing gives None
_distance_to_percentage(distance) ==
    IF ~IsNum(distance) THEN None
    ELSE LET p == 100 - distance.v
         IN  Num(IF p > 100 THEN 100 ELSE IF p < 0 THEN 0 ELSE p)

_calculate_air_data_quality(data) ==
    LET score == (IF data.co2 # None THEN 20 ELSE 0)
               + (IF data.temperature # None THEN 20 ELSE 0)
               + (IF data.humidity # None THEN 20 ELSE 0)
               + (IF data.pressure # None THEN 10 ELSE 0)
               + (IF data.battery # None THEN 10 ELSE 0)
               + (IF data.latitude # None /\ data.longitude # None THEN 20 ELSE 0)
    IN  IF score >= 90 THEN "excelente"
        ELSE IF score >= 70 THEN "buena"
        ELSE IF score >= 50 THEN "moderada"
        ELSE "pobre"

process_air_data(data) ==
    IF \E f \in {"co2", "temperature", "humidity", "pressure"} : CmpRaises(data[f])
    THEN [exc |-> "TypeError", data |-> data]
    ELSE LET v == _validate_air_data(data)
             c == [v EXCEPT
                     !.dew_point =
                         IF Truthy(v.temperature) /\ Truthy(v.humidity)
                         THEN _calculate_dew_point(v.temperature, v.humidity)
                         ELSE @,
                     !.air_quality_category =
                         IF Truthy(v.co2) THEN _categorize_air_quality(v.co2.v) ELSE @,
                     !.temperature_category =
                         IF Truthy(v.temperature)
                         THEN _categorize_temperature(v.temperature.v) ELSE @]
         IN  [exc |-> "none",
              data |-> [c EXCEPT !.data_quality = _calculate_air_data_quality(c)]]

process_sound_data(data) ==
    IF CmpRaises(data.laeq) THEN [exc |-> "TypeError", data |-> data]
    ELSE LET checked == ValidateRange(data.laeq, 30, 120)
             laeq == IF checked = None /\ Truthy(data.lai) THEN data.lai ELSE checked
         IN  IF Truthy(laeq) /\ CmpRaises(laeq)
             THEN [exc |-> "TypeError", data |-> data]
             ELSE IF Truthy(data.laimax) /\ Truthy(laeq) /\ ~IsNum(data.laimax)
             THEN [exc |-> "TypeError", data |-> data]
             ELSE [exc |-> "none",
                   data |-> [data EXCEPT
                       !.laeq = laeq,
                       !.noise_category =
                           IF Truthy(laeq) THEN _categorize_noise(laeq.v) ELSE @]]

process_water_data(data) ==
    LET derived == IF data.water_level = None /\ Truthy(data.distance)
                   THEN _distance_to_percentage(data.distance)
                   ELSE data.water_level
    IN  IF CmpRaises(derived) THEN [exc |-> "TypeError", data |-> data]
        ELSE LET level == ValidateRange(derived, 0, 100)
             IN  [exc |-> "none",
                  data |-> [data EXCEPT
                      !.water_level = level,
                      !.tank_status =
                          IF Truthy(level) THEN _categorize_tank_status(level.v) ELSE @]]

\* main.py 148-159: a parseable ISO string becomes that datetime, a missing,
\* empty or unparseable string becomes the receipt time, and a truthy value
\* that is no string (isinstance fails, line 150) is left as it is
IsoTimestamps == {"t1", "t2"}

\* timestamps given as a JSON number (seconds since the epoch)
NumberTimestamps == {"1700000000"}

ConvertTimestamp(ts) ==
    IF ts \in IsoTimestamps \cup NumberTimestamps THEN ts ELSE "now"

(***************************************************************************)
(* The durable store: the tables of src/consumer/models.py.                *)
(***************************************************************************)
\* to_decimal_or_none: float(value), None when value is None or not a number
to_decimal_or_none(value) == IF IsNum(value) THEN value ELSE None

EmptyPg ==
    [devices |-> <<>>,
     measurements |-> [k \in SensorTypes |-> <<>>],
     alerts |-> <<>>,
     serial |-> [k \in SensorTypes |-> 0]]

\* session.query(Device).filter_by(device_name=...).first()
DeviceIndexes(devices, name) ==
    {i \in 1..Len(devices) : devices[i].device_name = name}

\* lines 120-127: the Device built on first sighting
NewDevice(sensor_type, data) ==
    [device_name |-> data.device_name, sensor_type |-> sensor_type,
     latitude |-> to_decimal_or_none(data.latitude),
     longitude |-> to_decimal_or_none(data.longitude),
     last_seen |-> data.timestamp,
     battery_level |-> to_decimal_or_none(data.battery),
     is_active |-> TRUE]

\* lines 130-133: the Device the query found is refreshed
DeviceRefresh(devices, data) ==
    LET found == DeviceIndexes(devices, data.device_name)
        i == CHOOSE j \in found : \A k \in found : j <= k
    IN  [devices EXCEPT
            ![i].last_seen = data.timestamp,
            ![i].battery_level =
                IF Truthy(data.battery) THEN to_decimal_or_none(data.battery) ELSE @]

\* lines 113-132: create the device on first sighting, else refresh it
DeviceUpsert(devices, sensor_type, data) ==
    IF DeviceIndexes(devices, data.device_name) = {}
    THEN Append(devices, NewDevice(sensor_type, data))
    ELSE DeviceRefresh(devices, data)

\* lines 137-181: the row of the table of sensor_type, other columns NULL
MeasurementRow(sensor_type, data, id) ==
    LET col(f, kinds) ==
            IF sensor_type \in kinds THEN to_decimal_or_none(data[f]) ELSE None
        lab(f, kinds) == IF sensor_type \in kinds THEN data[f] ELSE ""
    IN  [id |-> id, device_name |-> data.device_name, timestamp |-> data.timestamp,
         latitude |-> to_decimal_or_none(data.latitude),
         longitude |-> to_decimal_or_none(data.longitude),
         battery |-> to_decimal_or_none(data.battery),
         co2 |-> col("co2", {"aire"}),
         temperature |-> col("temperature", {"aire"}),
         humidity |-> col("humidity", {"aire"}),
         pressure |-> col("pressure", {"aire"}),
         laeq |-> col("laeq", {"sonido"}),
         lai |-> col("lai", {"sonido"}),
         laimax |-> col("laimax", {"sonido"}),
         water_level |-> col("water_level", {"agua"}),
         distance |-> col("distance", {"agua"}),
         air_quality_category |-> lab("air_quality_category", {"aire"}),
         temperature_category |-> lab("temperature_category", {"aire"}),
         noise_category |-> lab("noise_category", {"sonido"}),
         tank_status |-> lab("tank_status", {"agua"}),
         data_quality |-> IF data.data_quality = "" THEN "good" ELSE data.data_quality]

Between(x, lo, hi) == x = None \/ (x.v >= lo /\ x.v <= hi)

\* the CheckConstraints of AirMeasurement, SoundMeasurement, WaterMeasurement
CheckConstraintsOk(sensor_type, row) ==
    /\ sensor_type = "aire" =>
          /\ Between(row.co2, 300, 5000)
          /\ Between(row.temperature, 0 - 10, 50)
          /\ Between(row.humidity, 0, 100)
          /\ Between(row.pressure, 500, 1100)
          /\ Between(row.battery, 0, 100)
    /\ sensor_type = "sonido" => Between(row.laeq, 30, 120)
    /\ sensor_type = "agua" => Between(row.water_level, 0, 100)

\* devices.device_name without its unique index
NoUniqueIndex(devices) == TRUE

\* Device.device_name is unique=True
UniqueDeviceNames(devices) ==
    \A i, j \in 1..Len(devices) :
        devices[i].device_name = devices[j].device_name => i = j

\* an INSERT that replaces the row of the same device and timestamp
InsertMeasurementUpsert(rows, row) ==
    LET same == {i \in 1..Len(rows) :
                    /\ rows[i].device_name = row.device_name
                    /\ rows[i].timestamp = row.timestamp}
    IN  IF same = {} THEN Append(rows, row)
        ELSE [i \in 1..Len(rows) |-> IF i \in same THEN row ELSE rows[i]]

\* session.add(measurement): measurements are append-only
InsertMeasurement(rows, row) == Append(rows, row)

(***************************************************************************)
(* The cache.  A list is kept run-length encoded, <<[e, n], ...>> standing *)
(* for n copies of e, head first, so that a list at its cap of 10,000      *)
(* entries is one run.                                                     *)
(***************************************************************************)
RECURSIVE LLen(_)
LLen(l) == IF l = <<>> THEN 0 ELSE l[1].n + LLen(Tail(l))

LIndex0(l) == l[1].e

LPush(l, e) ==
    IF l # <<>> /\ l[1].e = e
    THEN <<[e |-> e, n |-> l[1].n + 1]>> \o Tail(l)
    ELSE <<[e |-> e, n |-> 1]>> \o l

RECURSIVE LTake(_, _)
LTake(l, k) ==
    IF k <= 0 \/ l = <<>> THEN <<>>
    ELSE IF l[1].n <= k THEN <<l[1]>> \o LTake(Tail(l), k - l[1].n)
    ELSE <<[e |-> l[1].e, n |-> k]>>

RECURSIVE LDrop(_, _)
LDrop(l, k) ==
    IF k <= 0 \/ l = <<>> THEN l
    ELSE IF l[1].n <= k THEN LDrop(Tail(l), k - l[1].n)
    ELSE <<[e |-> l[1].e, n |-> l[1].n - k]>> \o Tail(l)

\* LTRIM key start stop, both indexes inclusive and non-negative
LTrim(l, start, stop) == LTake(LDrop(l, start), stop - start + 1)

\* ltrim(history_key, 0, 9999)
HistoryStop == 9999

\* safe_str: None becomes '', anything else its str()
safe_str(value) ==
    IF value = None THEN ""
    ELSE IF IsNum(value) THEN ToString(value.v)
    ELSE "x"

\* safe_data = {k: safe_str(v) for k, v in data.items()}
SafeData(data) ==
    [co2 |-> safe_str(data.co2), temperature |-> safe_str(data.temperature),
     humidity |-> safe_str(data.humidity), pressure |-> safe_str(data.pressure),
     battery |-> safe_str(data.battery), laeq |-> safe_str(data.laeq),
     lai |-> safe_str(data.lai), laimax |-> safe_str(data.laimax),
     water_level |-> safe_str(data.water_level),
     distance |-> safe_str(data.distance),
     dew_point |-> safe_str(data.dew_point),
     latitude |-> safe_str(data.latitude), longitude |-> safe_str(data.longitude),
     device_name |-> data.device_name, timestamp |-> data.timestamp,
     air_quality_category |-> data.air_quality_category,
     temperature_category |-> data.temperature_category,
     noise_category |-> data.noise_category, tank_status |-> data.tank_status,
     data_quality |-> data.data_quality]

\* history_data of lines 279-282
HistoryEntry(data) == [timestamp |-> data.timestamp, data |-> SafeData(data)]

NoHash ==
    [sensor_type |-> "", last_update |-> "", latitude |-> "", longitude |-> "",
     status |-> "", co2 |-> "", temperature |-> "", humidity |-> "",
     air_quality |-> "", laeq |-> "", noise_category |-> "",
     water_level |-> "", tank_status |-> ""]

NoAlert == [severity |-> "", value |-> "", timestamp |-> ""]

EmptyRedis ==
    [device |-> [d \in DeviceNames |-> NoHash],
     device_ttl |-> [d \in DeviceNames |-> 0],
     history |-> [k \in SensorTypes \X DeviceNames |-> <<>>],
     history_ttl |-> [k \in SensorTypes \X DeviceNames |-> 0],
     active |-> [k \in SensorTypes |-> {}],
     active_ttl |-> [k \in SensorTypes |-> 0],
     dashboard |-> [d \in DeviceNames |-> None],
     alert |-> [k \in DeviceNames \X AlertTypes |-> NoAlert],
     alert_ttl |-> [k \in DeviceNames \X AlertTypes |-> 0]]

\* lines 236-263: hset merges the mapping into the hash of the device
DeviceHash(old, sensor_type, data) ==
    LET sd == SafeData(data)
        base == [old EXCEPT !.sensor_type = sensor_type,
                            !.last_update = data.timestamp,
                            !.latitude = sd.latitude, !.longitude = sd.longitude,
                            !.status = "online"]
    IN  IF sensor_type = "aire"
        THEN [base EXCEPT !.co2 = sd.co2, !.temperature = sd.temperature,
                          !.humidity = sd.humidity,
                          !.air_quality = sd.air_quality_category]
        ELSE IF sensor_type = "sonido"
        THEN [base EXCEPT !.laeq = sd.laeq, !.noise_category = sd.noise_category]
        ELSE [base EXCEPT !.water_level = sd.water_level,
                          !.tank_status = sd.tank_status]

\* the Redis commands of save_to_redis, in program order
RedisOps ==
    <<"hset", "expire_device", "lpush", "ltrim", "sadd", "expire_active", "zadd">>

OpIndex(op) == CHOOSE i \in 1..Len(RedisOps) : RedisOps[i] = op

\* fault names the command at which the connection fails ("none": nowhere);
\* op is executed and succeeds when the fault lies after it
Done(op, fault) == fault = "none" \/ OpIndex(op) < OpIndex(fault)

\* one Redis command: run applies it, a command after the fault is never sent
Hset(redis, name, sensor_type, data, run) ==
    IF run THEN [redis EXCEPT !.device[name] = DeviceHash(@, sensor_type, data)]
    ELSE redis

ExpireDevice(redis, name, run) ==
    IF run THEN [redis EXCEPT !.device_ttl[name] = 2592000] ELSE redis

Lpush(redis, hkey, entry, run) ==
    IF run THEN [redis EXCEPT !.history[hkey] = LPush(@, entry)] ELSE redis

Ltrim(redis, hkey, run) ==
    IF run THEN [redis EXCEPT !.history[hkey] = LTrim(@, 0, HistoryStop)] ELSE redis

Sadd(redis, sensor_type, name, run) ==
    IF run THEN [redis EXCEPT !.active[sensor_type] = @ \cup {name}] ELSE redis

ExpireActive(redis, sensor_type, run) ==
    IF run THEN [redis EXCEPT !.active_ttl[sensor_type] = 2592000] ELSE redis

Zadd(redis, name, score, run) ==
    IF run THEN [redis EXCEPT !.dashboard[name] = score] ELSE redis

\* lines 205-315.  Returns [ok, redis].
save_to_redis(sensor_type, data, redis, fault) ==
    [ok |-> fault \in {"none", "zadd"},
     redis |->
        Zadd(
          ExpireActive(
            Sadd(
              Ltrim(
                Lpush(
                  ExpireDevice(
                    Hset(redis, data.device_name, sensor_type, data,
                         Done("hset", fault)),
                    data.device_name, Done("expire_device", fault)),
                  <<sensor_type, data.device_name>>, HistoryEntry(data),
                  Done("lpush", fault)),
                <<sensor_type, data.device_name>>, Done("ltrim", fault)),
              sensor_type, data.device_name, Done("sadd", fault)),
            sensor_type, Done("expire_active", fault)),
          data.device_name, data.co2,
          sensor_type = "aire" /\ Truthy(data.co2) /\ fault = "none")]

(***************************************************************************)
(* DatabaseManager._check_alerts.                                          *)
(***************************************************************************)
AlertDict(type, value, threshold, severity) ==
    [type |-> type, value |-> value, threshold |-> threshold, severity |-> severity]

\* `if x and x > n` raises TypeError on a non-empty string
RuleRaises(x) == Truthy(x) /\ CmpRaises(x)

\* lines 326-336
Co2Rule(data) ==
    IF Truthy(data.co2) /\ data.co2.v > 1000
    THEN <<AlertDict("high_co2", data.co2, 1000,
                     IF data.co2.v > 2000 THEN "high" ELSE "medium")>>
    ELSE <<>>

\* lines 339-358
TemperatureRule(data) ==
    IF Truthy(data.temperature) /\ data.temperature.v > 30
    THEN <<AlertDict("high_temperature", data.temperature, 30, "medium")>>
    ELSE IF Truthy(data.temperature) /\ data.temperature.v < 10
    THEN <<AlertDict("low_temperature", data.temperature, 10, "medium")>>
    ELSE <<>>

\* lines 362-372
NoiseRule(data) ==
    IF Truthy(data.laeq) /\ data.laeq.v > 75
    THEN <<AlertDict("high_noise", data.laeq, 75,
                     IF data.laeq.v > 85 THEN "high" ELSE "medium")>>
    ELSE <<>>

\* lines 376-386
WaterRule(data) ==
    IF Truthy(data.water_level) /\ data.water_level.v < 20
    THEN <<AlertDict("low_water_level", data.water_level, 20,
                     IF data.water_level.v < 10 THEN "high" ELSE "medium")>>
    ELSE <<>>

\* lines 389-400
BatteryRule(data) ==
    IF Truthy(data.battery) /\ data.battery.v < 20
    THEN <<AlertDict("low_battery", data.battery, 20, "medium")>>
    ELSE <<>>

\* an exception inside lines 320-400, before any Alert is created
RulesRaise(sensor_type, data) ==
    \/ sensor_type = "aire" /\ (RuleRaises(data.co2) \/ RuleRaises(data.temperature))
    \/ sensor_type = "sonido" /\ RuleRaises(data.laeq)
    \/ sensor_type = "agua" /\ RuleRaises(data.water_level)
    \/ RuleRaises(data.battery)

\* alerts_to_create when the rules run to the end
alerts_to_create(sensor_type, data) ==
    (IF sensor_type = "aire" THEN Co2Rule(data) \o TemperatureRule(data)
     ELSE IF sensor_type = "sonido" THEN NoiseRule(data)
     ELSE WaterRule(data))
    \o BatteryRule(data)

\* lines 418-439: hset and expire of alert:{device}:{type}:latest; fault names
\* the command that fails ("none", "hset", "expire"), a failure is logged and
\* the loop goes on
RECURSIVE MirrorAlerts(_, _, _, _)
MirrorAlerts(redis, name, alerts, fault) ==
    IF alerts = <<>> \/ fault = "hset" THEN redis
    ELSE MirrorAlerts(
             [redis EXCEPT
                 !.alert[<<name, Head(alerts).type>>] =
                     [severity |-> Head(alerts).severity,
                      value |-> safe_str(Head(alerts).value), timestamp |-> "now"],
                 !.alert_ttl[<<name, Head(alerts).type>>] =
                     IF fault = "none" THEN 3600 ELSE @],
             name, Tail(alerts), fault)

\* lines 403-416: the Alert rows added to the session
AlertRows(sensor_type, data, measurement_id, alerts) ==
    [i \in 1..Len(alerts) |->
        [device_name |-> data.device_name, sensor_type |-> sensor_type,
         alert_type |-> alerts[i].type, value |-> alerts[i].value,
         threshold |-> alerts[i].threshold, severity |-> alerts[i].severity,
         measurement_id |-> measurement_id]]

\* lines 317-447.  Returns [raised, rows, redis]: raised tells that the
\* except clause of line 445 ran, rows are the Alert rows added to the session.
_check_alerts(sensor_type, data, measurement_id, redis, fault) ==
    IF RulesRaise(sensor_type, data)
    THEN [raised |-> TRUE, rows |-> <<>>, redis |-> redis]
    ELSE [raised |-> FALSE,
          rows |-> AlertRows(sensor_type, data, measurement_id,
                             alerts_to_create(sensor_type, data)),
          redis |-> MirrorAlerts(redis, data.device_name,
                                 alerts_to_create(sensor_type, data), fault)]

(***************************************************************************)
(* DatabaseManager.save_to_postgres.                                       *)
(***************************************************************************)
\* lines 183-203 once the device and the measurement are in the session:
\* flush, _check_alerts (result ca), commit; any exception rolls back.
\* A DateTime column given a number makes the flush raise.
\* The serial of the table advances with the INSERT, committed or not.
FlushAndCommit(sensor_type, pg, redis, fault, devices, row, ca) ==
    IF fault = "flush" \/ ~UniqueDeviceNames(devices)
       \/ row.timestamp \in NumberTimestamps
    THEN [id |-> 0, pg |-> pg, redis |-> redis, alerts_raised |-> FALSE]
    ELSE IF ~CheckConstraintsOk(sensor_type, row)
    THEN [id |-> 0, pg |-> [pg EXCEPT !.serial[sensor_type] = row.id],
          redis |-> redis, alerts_raised |-> FALSE]
    ELSE IF fault = "commit"
    THEN [id |-> 0, pg |-> [pg EXCEPT !.serial[sensor_type] = row.id],
          redis |-> ca.redis, alerts_raised |-> ca.raised]
    ELSE [id |-> row.id,
          pg |-> [pg EXCEPT
                    !.serial[sensor_type] = row.id,
                    !.devices = devices,
                    !.measurements[sensor_type] = InsertMeasurement(@, row),
                    !.alerts = @ \o ca.rows],
          redis |-> ca.redis, alerts_raised |-> ca.raised]

\* lines 98-203.  fault names the step at which the store fails ("none",
\* "query", "flush", "commit").  Returns [id, pg, redis, alerts_raised]; id 0
\* stands for None.
save_to_postgres(sensor_type, data, pg, redis, fault, alert_fault) ==
    IF fault = "query"
    THEN [id |-> 0, pg |-> pg, redis |-> redis, alerts_raised |-> FALSE]
    ELSE FlushAndCommit(sensor_type, pg, redis, fault,
             DeviceUpsert(pg.devices, sensor_type, data),
             MeasurementRow(sensor_type, data, pg.serial[sensor_type] + 1),
             _check_alerts(sensor_type, data, pg.serial[sensor_type] + 1, redis,
                           alert_fault))

(***************************************************************************)
(* Consumer.process_message.  A result is                                  *)
(*   [acks, exc, st, sinks, faults, postgres_id, redis_ok, data,           *)
(*    alerts_raised]                                                       *)
(* acks: the acknowledgment calls issued on the channel, in order;         *)
(* exc: the exception caught by an except clause, "none" without one;      *)
(* st: [pg, redis, processed_count, error_count] after the call;           *)
(* sinks: the sink calls made, in order; faults: the condition of the      *)
(* stores the sinks met (NoFault when no sink was called).                 *)
(***************************************************************************)
Fault(p, r, a) == [pg |-> p, rd |-> r, al |-> a]

NoFault == Fault("none", "none", "none")

Outcome(acks, exc, st, data) ==
    [acks |-> acks, exc |-> exc, st |-> st, sinks |-> <<>>, faults |-> NoFault,
     postgres_id |-> 0,
     redis_ok |-> FALSE, data |-> data, alerts_raised |-> FALSE]

\* both except clauses reject without requeue
HandleExceptionNeverRequeue(exc, st, data) ==
    Outcome(<<"nack_drop">>, exc, [st EXCEPT !.error_count = @ + 1], data)

\* lines 194-202: basic_nack(requeue=False) for json.JSONDecodeError,
\* basic_nack(requeue=True) for every other Exception, error_count += 1
HandleException(exc, st, data) ==
    Outcome(IF exc = "JSONDecodeError" THEN <<"nack_drop">> ELSE <<"nack_requeue">>,
            exc, [st EXCEPT !.error_count = @ + 1], data)

\* the acknowledgment without the return: the call goes on to the final
\* basic_ack
AckAndFallThrough(st, data) == Outcome(<<"ack", "ack">>, "none", st, data)

\* lines 129-130, 164-165: acknowledge and return without touching a sink
AckAndReturn(st, data) == Outcome(<<"ack">>, "none", st, data)

\* lines 171-192 with a failed durable write requeued instead of acknowledged
CountAndAckRequeueOnFailure(st, data, faults, p, r) ==
    [acks |-> IF p.id = 0 THEN <<"nack_requeue">> ELSE <<"ack">>, exc |-> "none",
     st |-> [pg |-> p.pg, redis |-> r.redis,
             processed_count |-> st.processed_count + 1,
             error_count |-> st.error_count
                             + (IF p.id = 0 THEN 1 ELSE 0)
                             + (IF r.ok THEN 0 ELSE 1)],
     sinks |-> <<"save_to_postgres", "save_to_redis">>, faults |-> faults,
     postgres_id |-> p.id, redis_ok |-> r.ok, data |-> data,
     alerts_raised |-> p.alerts_raised]

\* lines 171-192: p and r are the results of the two sinks
CountAndAck(st, data, faults, p, r) ==
    [acks |-> <<"ack">>, exc |-> "none",
     st |-> [pg |-> p.pg, redis |-> r.redis,
             processed_count |-> st.processed_count + 1,
             error_count |-> st.error_count
                             + (IF p.id = 0 THEN 1 ELSE 0)
                             + (IF r.ok THEN 0 ELSE 1)],
     sinks |-> <<"save_to_postgres", "save_to_redis">>, faults |-> faults,
     postgres_id |-> p.id, redis_ok |-> r.ok, data |-> data,
     alerts_raised |-> p.alerts_raised]

\* line 169 guarded by the durable result: no cache write after a failed
\* durable write
CacheAfterDurableOnlyOnSuccess(sensor_type, data, st, faults, p) ==
    IF p.id = 0
    THEN [acks |-> <<"ack">>, exc |-> "none",
          st |-> [pg |-> p.pg, redis |-> p.redis,
                  processed_count |-> st.processed_count + 1,
                  error_count |-> st.error_count + 1],
          sinks |-> <<"save_to_postgres">>, faults |-> faults, postgres_id |-> 0,
          redis_ok |-> FALSE, data |-> data, alerts_raised |-> p.alerts_raised]
    ELSE CountAndAck(st, data, faults, p,
                     save_to_redis(sensor_type, data, p.redis, faults.rd))

\* line 169: the cache write follows the durable write p unconditionally
CacheAfterDurable(sensor_type, data, st, faults, p) ==
    CountAndAck(st, data, faults, p,
                save_to_redis(sensor_type, data, p.redis, faults.rd))

\* lines 167-192
PersistAndAck(sensor_type, data, st, faults) ==
    CacheAfterDurable(sensor_type, data, st, faults,
        save_to_postgres(sensor_type, data, st.pg, st.redis, faults.pg, faults.al))

\* lines 133-138
ApplyETL(sensor_type, data) ==
    IF sensor_type = "aire" THEN process_air_data(data)
    ELSE IF sensor_type = "sonido" THEN process_sound_data(data)
    ELSE process_water_data(data)

\* a delivery body: fmt tells how far json.loads(body.decode()) gets
\*   "bad_utf8"    bytes that are not UTF-8 (UnicodeDecodeError)
\*   "bad_json"    text that is not JSON (json.JSONDecodeError)
\*   "json_array"  JSON that is not an object (message.get: AttributeError)
\*   "json_object" an envelope {sensor_type, data}
Decodable(body) == body.fmt = "json_object"

\* lines 144-192: etl is the result of the ETL step
AfterETL(body, st, faults, etl) ==
    IF etl.exc # "none" THEN HandleException(etl.exc, st, body.data)
    ELSE IF etl.data.device_name = ""
    THEN AckAndReturn(st, [etl.data EXCEPT !.timestamp = ConvertTimestamp(@)])
    ELSE PersistAndAck(body.sensor_type,
                       [etl.data EXCEPT !.timestamp = ConvertTimestamp(@)],
                       st, faults)

\* lines 111-202
process_message(body, st, faults) ==
    IF body.fmt = "bad_utf8" THEN HandleException("UnicodeDecodeError", st, body.data)
    ELSE IF body.fmt = "bad_json"
    THEN HandleException("JSONDecodeError", st, body.data)
    ELSE IF body.fmt = "json_array" \/ ~body.data_is_dict
    THEN HandleException("AttributeError", st, body.data)
    ELSE IF body.sensor_type \notin SensorTypes THEN AckAndReturn(st, body.data)
    ELSE AfterETL(body, st, faults, ApplyETL(body.sensor_type, body.data))

(***************************************************************************)
(* The messages and the faults the model draws from.                       *)
(***************************************************************************)
Envelope(sensor_type, data) ==
    [fmt |-> "json_object", sensor_type |-> sensor_type, data_is_dict |-> TRUE,
     data |-> data]

Raw(fmt) ==
    [fmt |-> fmt, sensor_type |-> "", data_is_dict |-> FALSE, data |-> EmptyData]

Reading(name, ts) == [EmptyData EXCEPT !.device_name = name, !.timestamp = ts]

Bodies ==
    { Raw("bad_utf8"), Raw("bad_json"), Raw("json_array"),
      \* an envelope whose data is not an object
      [fmt |-> "json_object", sensor_type |-> "aire", data_is_dict |-> FALSE,
       data |-> EmptyData],
      Envelope("otro", Reading("d1", "t1")),
      Envelope("aire", [Reading("", "t1") EXCEPT !.co2 = Num(800)]),
      Envelope("aire", [Reading("d1", "t1") EXCEPT !.co2 = Str]),
      Envelope("aire", [Reading("d1", "t1") EXCEPT
                           !.co2 = Num(2500), !.temperature = Num(20),
                           !.battery = Num(50)]),
      Envelope("aire", [Reading("d1", "t2") EXCEPT
                           !.co2 = Num(1200), !.battery = Str]),
      Envelope("aire", [Reading("d2", "garbled") EXCEPT
                           !.co2 = Num(800), !.temperature = Num(35),
                           !.battery = Num(15)]),
      \* a freezing room reported by a sensor whose battery is flat
      Envelope("aire", [Reading("d2", "t2") EXCEPT
                           !.co2 = Num(800), !.temperature = Num(0),
                           !.battery = Num(0)]),
      Envelope("agua", [Reading("d2", "t1") EXCEPT !.distance = Num(100)]),
      Envelope("agua", [Reading("d2", "") EXCEPT
                           !.water_level = Num(15), !.battery = Num(50)]),
      Envelope("sonido", [Reading("d1", "t1") EXCEPT !.lai = Num(200)]),
      \* a timestamp in seconds since the epoch
      Envelope("agua", [Reading("d1", "1700000000") EXCEPT
                           !.water_level = Num(50)]) }

\* the conditions of the two stores during one delivery
Faults ==
    { NoFault,
      Fault("query", "none", "none"),      \* durable store down
      Fault("commit", "none", "none"),     \* durable store lost at commit
      Fault("none", "hset", "hset"),       \* cache down
      Fault("query", "hset", "hset"),      \* both stores down
      Fault("none", "ltrim", "none"),      \* cache lost after lpush
      Fault("none", "none", "expire") }    \* cache lost while mirroring alerts

\* an entry left in a history list by an earlier run of the consumer
OldEntry == HistoryEntry(Reading("d1", "t0"))

(***************************************************************************)
(* The Kafka path: DataValidator (src/validation.py) and                   *)
(* SensorDataETL.transform_to_schema (src/kafka_consumer_etl_fixed.py).    *)
(* A record is the flattened payload; a key that is absent reads as None   *)
(* through record.get, and a payload without keys is the record of Nones.  *)
(* A text value of `time` is a timestamp safe_timestamp can parse, a text  *)
(* value of `location` a "lat,lon" pair extract_location can parse.        *)
(***************************************************************************)
KafkaTypes == {"air_quality", "sound", "water"}

EmptyRecord ==
    [id |-> None, time |-> None, deviceName |-> None, devAddr |-> None,
     deduplicationId |-> None, deviceClass |-> None, tenantName |-> None,
     address |-> None, location |-> None, batteryLevel |-> None, fCnt |-> None,
     rssi0 |-> None, rssi1 |-> None, rssi2 |-> None, rssi3 |-> None,
     rssi4 |-> None,
     snr0 |-> None, snr1 |-> None, snr2 |-> None, snr3 |-> None, snr4 |-> None,
     co2 |-> None, temperature |-> None, humidity |-> None, pressure |-> None,
     co2_status |-> None, temperature_status |-> None, humidity_status |-> None,
     pressure_status |-> None,
     LAeq |-> None, LAI |-> None, LAImax |-> None, status |-> None,
     distance |-> None, position |-> None]

\* DataValidator.__init__
NoStats ==
    [total_processed |-> 0, valid_records |-> 0, empty_records |-> 0,
     invalid_records |-> 0,
     rejection_reasons |->
         [r \in {"REGISTRO_COMPLETAMENTE_VACIO", "CAMPOS_REQUERIDOS_FALTANTES",
                 "SIN_DATOS_MEDICION", "VALIDACION_ESPECIFICA_FALLIDA"} |-> 0]]

\* `value is not None and value != '' and not pd.isna(value)` is false
Blank(x) == x.t \in {"none", "empty", "nan"}

\* a record counts as empty only when every value is None
is_completely_empty_none_only(record) ==
    \A f \in DOMAIN record : record[f] = None

\* lines 18-29
is_completely_empty(record) == \A f \in DOMAIN record : Blank(record[f])

\* lines 75-89
_get_measurement_fields(sensor_type) ==
    IF sensor_type = "air_quality"
    THEN {"co2", "temperature", "humidity", "pressure", "co2_status",
          "temperature_status", "humidity_status"}
    ELSE IF sensor_type = "sound" THEN {"LAeq", "LAI", "LAImax", "status"}
    ELSE IF sensor_type = "water"
    THEN {"distance", "position", "status", "batteryLevel"}
    ELSE {}

\* lines 130-137: the range of a field type
Ranges ==
    [co2 |-> <<300, 5000>>, temperature |-> <<0 - 50, 60>>,
     humidity |-> <<0, 100>>, pressure |-> <<500, 1100>>,
     sound_level |-> <<30, 120>>, distance |-> <<0, 100>>]

\* a number within lo..hi; every comparison with nan is false
NumIn(x, lo, hi) == IsNum(x) /\ lo <= x.v /\ x.v <= hi

\* lines 122-143: None, '', text that float() rejects and nan are not reasonable
_is_reasonable_value(value, field_type) ==
    NumIn(value, Ranges[field_type][1], Ranges[field_type][2])

\* lines 91-120
_validate_sensor_specific(record, sensor_type) ==
    IF sensor_type = "air_quality"
    THEN \E f \in {"co2", "temperature", "humidity", "pressure"} :
            _is_reasonable_value(record[f], f)
    ELSE IF sensor_type = "sound"
    THEN record.LAeq # None => _is_reasonable_value(record.LAeq, "sound_level")
    ELSE IF sensor_type = "water"
    THEN \/ record.distance # None /\ _is_reasonable_value(record.distance, "distance")
         \/ record.position # None
    ELSE TRUE

\* the counter of the outcome without the entry in the histogram
RejectedUnlogged(st, counter, reason) ==
    [st EXCEPT !.total_processed = @ + 1, ![counter] = @ + 1]

\* _log_rejection and the counter of the outcome
Rejected(st, counter, reason) ==
    [st EXCEPT !.total_processed = @ + 1, ![counter] = @ + 1,
               !.rejection_reasons[reason] = @ + 1]

\* lines 31-73.  Returns [valid, reason, stats].
validate_sensor_record(record, sensor_type, st) ==
    IF is_completely_empty(record)
    THEN [valid |-> FALSE, reason |-> "Registro completamente vacio",
          stats |-> Rejected(st, "empty_records", "REGISTRO_COMPLETAMENTE_VACIO")]
    ELSE IF ~Truthy(record.id) \/ ~Truthy(record.time)
    THEN [valid |-> FALSE, reason |-> "Campos requeridos faltantes",
          stats |-> Rejected(st, "invalid_records", "CAMPOS_REQUERIDOS_FALTANTES")]
    ELSE IF \A f \in _get_measurement_fields(sensor_type) : Blank(record[f])
    THEN [valid |-> FALSE, reason |-> "Sin datos de medicion",
          stats |-> Rejected(st, "invalid_records", "SIN_DATOS_MEDICION")]
    ELSE IF ~_validate_sensor_specific(record, sensor_type)
    THEN [valid |-> FALSE, reason |-> "Validacion especifica fallida",
          stats |-> Rejected(st, "invalid_records", "VALIDACION_ESPECIFICA_FALLIDA")]
    ELSE [valid |-> TRUE, reason |-> "Valido",
          stats |-> [st EXCEPT !.total_processed = @ + 1, !.valid_records = @ + 1]]

\* lines 157-165: None for None, '' and text; nan stays nan
safe_float(value) == IF value.t \in {"num", "nan"} THEN value ELSE None

\* lines 167-175: int(float(nan)) raises ValueError
safe_int(value) == IF IsNum(value) THEN value ELSE None

\* lines 339-348: None for None and for text that strips to nothing
safe_string(value) == IF value.t \in {"none", "empty"} THEN None ELSE Str

\* a text that is in none of the timestamp formats
BadText == [t |-> "str", v |-> 1]

\* lines 303-337: only a text in one of the formats is parsed
safe_timestamp(value) == IF value = Str THEN value ELSE None

\* lines 134-155: both coordinates or neither
extract_location(value) == IF value.t = "str" THEN Str ELSE None

\* the keys rxInfo[i].rssi and rxInfo[i].snr for i in range(4)
RssiKeys == <<"rssi0", "rssi1", "rssi2", "rssi3">>

SnrKeys == <<"snr0", "snr1", "snr2", "snr3">>

\* every reading that is a number is accepted, whatever its value
AcceptedReadingsUnbounded(data, keys, lo, hi) ==
    SelectSeq([i \in 1..Len(keys) |-> data[keys[i]]], LAMBDA x : IsNum(x))

\* lines 102-124: the readings under keys, in order, that float() converts
\* to a value within lo..hi (ETLConfig.MIN_RSSI..MAX_RSSI, MIN_SNR..MAX_SNR)
AcceptedReadings(data, keys, lo, hi) ==
    SelectSeq([i \in 1..Len(keys) |-> data[keys[i]]], LAMBDA x : NumIn(x, lo, hi))

RECURSIVE SumSeq(_)
SumSeq(values) ==
    IF values = <<>> THEN 0 ELSE Head(values).v + SumSeq(Tail(values))

\* np.mean of a non-empty list, in twelfths of a unit: exact for the one to
\* four values the list can hold
Mean(values) == Num((SumSeq(values) * 12) \div Len(values))

\* min(values) of a non-empty list
Min(values) ==
    Num(CHOOSE m \in {values[i].v : i \in 1..Len(values)} :
            \A i \in 1..Len(values) : m <= values[i].v)

\* max(values) of a non-empty list
Max(values) ==
    Num(CHOOSE m \in {values[i].v : i \in 1..Len(values)} :
            \A i \in 1..Len(values) : m >= values[i].v)

\* lines 126-132
SignalMetrics(rssi_values, snr_values) ==
    [rssi_avg |-> IF rssi_values # <<>> THEN Mean(rssi_values) ELSE None,
     snr_avg |-> IF snr_values # <<>> THEN Mean(snr_values) ELSE None,
     rssi_min |-> IF rssi_values # <<>> THEN Min(rssi_values) ELSE None,
     rssi_max |-> IF rssi_values # <<>> THEN Max(rssi_values) ELSE None,
     gateway_count |-> Len(rssi_values)]

\* lines 98-132
extract_signal_metrics(data) ==
    SignalMetrics(AcceptedReadings(data, RssiKeys, 0 - 130, 0),
                  AcceptedReadings(data, SnrKeys, 0 - 20, 20))

\* lines 216-231
base_data(data) ==
    [id |-> safe_string(data.id), devAddr |-> safe_string(data.devAddr),
     deduplicationId |-> safe_string(data.deduplicationId),
     time |-> safe_timestamp(data.time),
     device_class |-> safe_string(data.deviceClass),
     tenant_name |-> safe_string(data.tenantName),
     device_name |-> safe_string(data.deviceName),
     location |-> safe_string(data.address),
     latitude |-> extract_location(data.location),
     longitude |-> extract_location(data.location),
     battery_level |-> safe_float(data.batteryLevel),
     fCnt |-> safe_int(data.fCnt),
     rssi |-> extract_signal_metrics(data).rssi_avg,
     snr |-> extract_signal_metrics(data).snr_avg]

\* lines 236-243: more than 60% of the base fields are None
TooManyNulls(base) ==
    Cardinality({f \in DOMAIN base : base[f] = None}) * 100
        > 60 * Cardinality(DOMAIN base)

\* `x is not None and not (lo <= x <= hi)`
OutOfRange(x, lo, hi) == x # None /\ ~NumIn(x, lo, hi)

\* every declared range is checked
validate_air_quality_data_all_ranges(d) ==
    /\ \E f \in {"co2", "temperature", "humidity", "pressure"} : d[f] # None
    /\ ~OutOfRange(d.co2, 300, 5000)
    /\ ~OutOfRange(d.temperature, 0 - 50, 60)
    /\ ~OutOfRange(d.humidity, 0, 100)
    /\ ~OutOfRange(d.pressure, 500, 1100)

\* lines 350-372
validate_air_quality_data(d) ==
    /\ \E f \in {"co2", "temperature", "humidity", "pressure"} : d[f] # None
    /\ ~OutOfRange(d.co2, 300, 5000)
    /\ ~OutOfRange(d.temperature, 0 - 50, 60)

\* lines 374-385
validate_sound_data(d) == d.laeq # None /\ ~OutOfRange(d.laeq, 30, 120)

\* lines 387-399
validate_water_data(d) ==
    /\ d.distance # None \/ d.position # None
    /\ ~OutOfRange(d.distance, 0, 100)

\* lines 248-291: the sensor-specific part of the canonical record
sensor_specific(data) ==
    [co2 |-> safe_float(data.co2), temperature |-> safe_float(data.temperature),
     humidity |-> safe_float(data.humidity), pressure |-> safe_float(data.pressure),
     laeq |-> safe_float(data.LAeq), lai |-> safe_float(data.LAI),
     laimax |-> safe_float(data.LAImax), distance |-> safe_float(data.distance),
     position |-> safe_string(data.position)]

\* lines 177-297.  Returns [produced, base, specific]: produced tells whether a
\* canonical record is returned (None otherwise).
transform_to_schema(data, sensor_type) ==
    [produced |->
        /\ Truthy(data.id) /\ Truthy(data.time) /\ Truthy(data.deviceName)
        /\ safe_timestamp(data.time) # None
        /\ ~TooManyNulls(base_data(data))
        /\ IF sensor_type = "air_quality"
           THEN validate_air_quality_data(sensor_specific(data))
           ELSE IF sensor_type = "sound"
           THEN validate_sound_data(sensor_specific(data))
           ELSE IF sensor_type = "water"
           THEN validate_water_data(sensor_specific(data))
           ELSE FALSE,
     base |-> base_data(data),
     specific |-> sensor_specific(data)]

\* the records the model validates
FullBase ==
    [EmptyRecord EXCEPT !.id = Str, !.time = Str, !.deviceName = Str,
                        !.devAddr = Str, !.deduplicationId = Str,
                        !.tenantName = Str, !.batteryLevel = Num(80),
                        !.fCnt = Num(1)]

BareBase == [EmptyRecord EXCEPT !.id = Str, !.time = Str, !.deviceName = Str]

KafkaRecords ==
    \* nothing but blanks
    {[f \in DOMAIN EmptyRecord |-> b] : b \in {None, Empty, NaN}}
    \cup {[EmptyRecord EXCEPT !.id = Empty, !.co2 = NaN, !.status = Empty]}
    \* identity fields
    \cup {[FullBase EXCEPT !.id = i, !.time = t, !.co2 = c] :
             i \in {None, Empty, NaN, Str},
             t \in {None, NaN, Num(1700000000), BadText, Str},
             c \in {None, Num(800)}}
    \* air measurements
    \cup {[b EXCEPT !.co2 = c, !.temperature = t, !.humidity = h] :
             b \in {FullBase, BareBase},
             c \in {None, NaN, Num(800), Num(9999)},
             t \in {None, Num(70)}, h \in {None, Num(150)}}
    \cup {[FullBase EXCEPT !.co2 = c, !.pressure = Num(2000)] :
             c \in {Str, Num(800)}}
    \* gateway readings
    \cup {[FullBase EXCEPT !.co2 = Num(800),
                            !.rssi0 = r[1], !.rssi1 = r[2], !.rssi2 = r[3],
                            !.rssi3 = r[4], !.rssi4 = r[5],
                            !.snr0 = q[1], !.snr3 = q[2], !.snr4 = q[3]] :
             r \in {<<Num(0 - 140), Num(0 - 90), Num(0 - 60), Num(0 - 200),
                      Num(0 - 50)>>,
                    <<Num(0 - 131), Num(1), Str, NaN, Num(0 - 50)>>,
                    <<Empty, Num(0), None, Num(0 - 130), None>>,
                    <<Num(0 - 100), Num(0 - 100), Num(0 - 70), Num(0 - 100), None>>},
             q \in {<<None, None, Num(5)>>, <<Num(0 - 20), Num(21), Num(5)>>,
                    <<Num(7), Num(0 - 4), None>>}}
    \* sound measurements
    \cup {[FullBase EXCEPT !.LAeq = l, !.LAI = i] :
             l \in {None, Empty, Num(60), Num(130)}, i \in {None, Num(60)}}
    \* water measurements
    \cup {[FullBase EXCEPT !.distance = d, !.position = q] :
             d \in {None, Num(50), Num(150)}, q \in {None, Empty, Str}}

(***************************************************************************)
(* The state machine: main() connects to the broker and to the stores and  *)
(* starts consuming; the broker pushes deliveries within the prefetch      *)
(* window of the channel and process_message settles them one by one.      *)
(***************************************************************************)
VARIABLES
    pg,               \* the durable store
    redis,            \* the cache
    processed_count,  \* Consumer.processed_count
    error_count,      \* Consumer.error_count
    requeued,         \* bodies the broker holds for redelivery, head first
    deliveries,       \* number of deliveries so far
    saved,            \* number of save_to_postgres calls that returned an id
    last,             \* what the last call of process_message did
    pc,               \* where main() stands
    attempt,          \* the loop variable of connect_rabbitmq
    channel,          \* Consumer.channel
    unacked,          \* deliveries sent on the channel and not yet settled
    session,          \* the database session of each consumer process
    calls,            \* save_to_postgres calls begun by those processes
    stats,            \* DataValidator.stats
    verdict,          \* what the last validate-and-transform call returned
    transformed,      \* what the last call of an ETLProcessor.process_* returned
    offsets           \* the Kafka consumer's position in its partition

vars ==
    <<pg, redis, processed_count, error_count, requeued, deliveries, saved, last,
      pc, attempt, channel, unacked, session, calls, stats, verdict, transformed,
      offsets>>

\* a consumer of a group without committed offset (auto_offset_reset
\* 'earliest'): position is the offset of the next message to fetch, committed
\* the offset the group resumes from, failed the offsets of the messages for
\* which process_message returned False, success its last result
NoOffsets ==
    [position |-> 0, committed |-> 0, failed |-> {}, success |-> FALSE,
     committed_before |-> 0]

\* no process_* call yet
NoTransform ==
    [sensor_type |-> "", input |-> EmptyData, exc |-> "none", data |-> EmptyData]

NoDelivery ==
    [body |-> Raw("none"), faults |-> NoFault,
     redelivery |-> FALSE, before |-> [pg |-> EmptyPg, error_count |-> 0],
     acks |-> <<>>, exc |-> "none", sinks |-> <<>>, postgres_id |-> 0,
     redis_ok |-> FALSE, data |-> EmptyData, alerts_raised |-> FALSE]

\* the consumer processes that share the durable store
Workers == {"w1", "w2"}

\* a process outside save_to_postgres; result is what its last call returned
NoSession ==
    [at |-> "idle", sensor_type |-> "", data |-> EmptyData, found |-> FALSE,
     id |-> 0, result |-> ""]

NoVerdict ==
    [sensor_type |-> "", record |-> EmptyRecord, valid |-> FALSE, reason |-> "",
     canonical |-> FALSE, before |-> NoStats]

\* self.channel = None
NoChannel == [open |-> FALSE, queues |-> {}, prefetch |-> 0, consumers |-> {}]

\* the stores outlive the consumer: the cache starts empty or with the history
\* list of one device at its cap
Init ==
    /\ pg = EmptyPg
    /\ \E n \in {0, HistoryStop + 1} :
          redis = [EmptyRedis EXCEPT !.history[<<"aire", "d1">>] =
                      IF n = 0 THEN <<>> ELSE <<[e |-> OldEntry, n |-> n]>>]
    /\ processed_count = 0
    /\ error_count = 0
    /\ requeued = <<>>
    /\ deliveries = 0
    /\ saved = 0
    /\ last = NoDelivery
    /\ pc = "connect_rabbitmq"
    /\ attempt = 0
    /\ channel = NoChannel
    /\ unacked = <<>>
    /\ session = [w \in Workers |-> NoSession]
    /\ calls = 0
    /\ stats = NoStats
    /\ verdict = NoVerdict
    /\ transformed = NoTransform
    /\ offsets = NoOffsets

\* max_retries of connect_rabbitmq
max_retries == 5

\* basic_qos(prefetch_count=1)
prefetch_count == 1

\* the statements of one attempt of connect_rabbitmq that can raise
ConnectStages == {"BlockingConnection", "queue_declare", "basic_qos"}

\* lines 63-78 up to the statement that raises ("none": none does)
ChannelAfter(old, raised_at) ==
    IF raised_at = "BlockingConnection" THEN old
    ELSE [open |-> TRUE,
          queues |-> IF raised_at = "queue_declare" THEN {} ELSE SensorTypes,
          prefetch |-> IF raised_at = "none" THEN prefetch_count ELSE 0,
          consumers |-> {}]

\* `if attempt < max_retries`: the last attempt is followed by one more
CanRetryOnceMore(n) == n < max_retries

\* line 85: `if attempt < max_retries - 1`
CanRetry(n) == n < max_retries - 1

consumerVars ==
    <<pg, redis, processed_count, error_count, requeued, deliveries, saved, last,
      unacked>>

\* the state of the other programs of the repository
otherVars == <<session, calls, stats, verdict, transformed, offsets>>

\* an attempt connects, declares the queues, sets the prefetch: return True
ConnectOk ==
    /\ pc = "connect_rabbitmq"
    /\ channel' = ChannelAfter(channel, "none")
    /\ attempt' = 0
    /\ pc' = "connect_databases"
    /\ UNCHANGED <<consumerVars, otherVars>>

\* an attempt raises and is not the last one: sleep(retry_delay), next attempt
ConnectRetry ==
    /\ pc = "connect_rabbitmq"
    /\ CanRetry(attempt)
    /\ \E stage \in ConnectStages : channel' = ChannelAfter(channel, stage)
    /\ attempt' = attempt + 1
    /\ UNCHANGED <<pc, consumerVars, otherVars>>

\* the last attempt raises: return False, and main returns (lines 262-264)
ConnectGiveUp ==
    /\ pc = "connect_rabbitmq"
    /\ ~CanRetry(attempt)
    /\ \E stage \in ConnectStages : channel' = ChannelAfter(channel, stage)
    /\ pc' = "exited"
    /\ UNCHANGED <<attempt, consumerVars, otherVars>>

connect_rabbitmq == ConnectOk \/ ConnectRetry \/ ConnectGiveUp

\* lines 267-270: main closes and returns when a store cannot be reached
connect_databases ==
    /\ pc = "connect_databases"
    /\ \E ok \in BOOLEAN :
          /\ pc' = IF ok THEN "start_consuming" ELSE "exited"
          /\ channel' = IF ok THEN channel ELSE [channel EXCEPT !.open = FALSE]
    /\ UNCHANGED <<attempt, consumerVars, otherVars>>

\* lines 210-219: one basic_consume per queue, then the blocking loop
start_consuming ==
    /\ pc = "start_consuming"
    /\ channel' = [channel EXCEPT !.consumers = SensorTypes]
    /\ pc' = "consuming"
    /\ UNCHANGED <<attempt, consumerVars, otherVars>>

\* the queue a message sits in: the producer routes by sensor_type, anything
\* else was published to sensor.aire by hand
QueueOf(body) ==
    IF body.sensor_type \in SensorTypes THEN body.sensor_type ELSE "aire"

\* the broker sends every message it has, whatever is unacknowledged
CanDeliverNoWindow(n, prefetch) == TRUE

\* the prefetch window of the channel: with n deliveries unacknowledged the
\* broker sends another one only below the limit (0: no limit)
CanDeliver(n, prefetch) == prefetch = 0 \/ n < prefetch

\* the positions of the messages of queue q awaiting redelivery
RequeuedAt(q) == {i \in 1..Len(requeued) : QueueOf(requeued[i]) = q}

\* the broker may push a delivery from queue q to the consumer
Pushable(q) ==
    /\ pc = "consuming"
    /\ q \in channel.consumers
    /\ deliveries < MaxDeliveries
    /\ CanDeliver(Len(unacked), channel.prefetch)

\* the acknowledgment of a delivery takes effect: res is what process_message
\* did with body, rest the messages held for redelivery before it
Settle(body, redelivery, rest, res) ==
    /\ pg' = res.st.pg
    /\ redis' = res.st.redis
    /\ processed_count' = res.st.processed_count
    /\ error_count' = res.st.error_count
    /\ saved' = saved + (IF res.postgres_id # 0 THEN 1 ELSE 0)
    /\ requeued' = IF \E i \in 1..Len(res.acks) : res.acks[i] = "nack_requeue"
                   THEN <<body>> \o rest ELSE rest
    /\ last' = [body |-> body, faults |-> res.faults, redelivery |-> redelivery,
                before |-> [pg |-> pg, error_count |-> error_count],
                acks |-> res.acks, exc |-> res.exc, sinks |-> res.sinks,
                postgres_id |-> res.postgres_id, redis_ok |-> res.redis_ok,
                data |-> res.data, alerts_raised |-> res.alerts_raised]

\* the connection runs the callback on a delivery
Handle(body, faults, redelivery, rest) ==
    Settle(body, redelivery, rest,
           process_message(body,
               [pg |-> pg, redis |-> redis, processed_count |-> processed_count,
                error_count |-> error_count],
               faults))

\* a message published to one of the queues is delivered for the first time;
\* a message requeued into the same queue is ahead of it
Deliver ==
    \E body \in Bodies :
        /\ Pushable(QueueOf(body))
        /\ RequeuedAt(QueueOf(body)) = {}
        /\ unacked' = Append(unacked, [body |-> body, redelivered |-> FALSE])
        /\ deliveries' = deliveries + 1
        /\ UNCHANGED <<pg, redis, processed_count, error_count, requeued, saved,
                       last, pc, attempt, channel, otherVars>>

\* a message that was requeued is delivered again
Redeliver ==
    \E q \in SensorTypes :
        /\ Pushable(q)
        /\ RequeuedAt(q) # {}
        /\ LET i == CHOOSE j \in RequeuedAt(q) : \A k \in RequeuedAt(q) : j <= k
           IN  /\ unacked' = Append(unacked,
                                    [body |-> requeued[i], redelivered |-> TRUE])
               /\ requeued' = SubSeq(requeued, 1, i - 1)
                              \o SubSeq(requeued, i + 1, Len(requeued))
        /\ deliveries' = deliveries + 1
        /\ UNCHANGED <<pg, redis, processed_count, error_count, saved, last, pc,
                       attempt, channel, otherVars>>

\* the blocking connection dispatches the oldest pending delivery to
\* process_message, which settles it before it returns
Process ==
    /\ pc = "consuming"
    /\ unacked # <<>>
    /\ \E faults \in Faults :
          Handle(Head(unacked).body, faults, Head(unacked).redelivered, requeued)
    /\ unacked' = Tail(unacked)
    /\ UNCHANGED <<deliveries, pc, attempt, channel, otherVars>>

Next ==
    \/ connect_rabbitmq
    \/ connect_databases
    \/ start_consuming
    \/ Deliver
    \/ Redeliver
    \/ Process

Spec == Init /\ [][Next]_vars

\* a running program takes its next step: every attempt of connect_rabbitmq
\* returns or raises within the timeouts of the connection parameters
LiveSpec == Spec /\ WF_vars(connect_rabbitmq)

(***************************************************************************)
(* Several consumer processes on the same durable store.  Each runs        *)
(* save_to_postgres in a session of its own (READ COMMITTED): the SELECT   *)
(* of the device, the INSERTs and UPDATEs of flush(), the commit.  An      *)
(* INSERT that collides with an uncommitted row of the unique index waits  *)
(* for the other transaction to end.                                       *)
(***************************************************************************)
\* bound: save_to_postgres calls begun
MaxCalls == 3

\* the records the processes save: the first-batch messages that reach
\* save_to_postgres, after the ETL step
RaceRecords ==
    {[sensor_type |-> b.sensor_type,
      data |-> [ApplyETL(b.sensor_type, b.data).data EXCEPT
                   !.timestamp = ConvertTimestamp(@)]] :
        b \in {x \in Bodies :
                 /\ Decodable(x) /\ x.data_is_dict
                 /\ x.sensor_type \in SensorTypes
                 /\ x.data.device_name # ""
                 /\ x.data.timestamp = "t1"
                 /\ ApplyETL(x.sensor_type, x.data).exc = "none"}}

raceUnchanged ==
    <<processed_count, error_count, requeued, deliveries, saved, last, pc, attempt,
      channel, unacked, stats, verdict, transformed, offsets>>

\* lines 113-132: the SELECT of the device; the Device and the measurement are
\* only added to the session
Query(w) ==
    /\ session[w].at = "idle"
    /\ calls < MaxCalls
    /\ \E rec \in RaceRecords :
          session' = [session EXCEPT ![w] =
              [at |-> "queried", sensor_type |-> rec.sensor_type, data |-> rec.data,
               found |-> DeviceIndexes(pg.devices, rec.data.device_name) # {},
               id |-> 0, result |-> ""]]
    /\ calls' = calls + 1
    /\ UNCHANGED <<pg, redis, raceUnchanged>>

\* the INSERT of w's Device waits for an uncommitted Device of the same name
InsertWaits(w) ==
    /\ ~session[w].found
    /\ \E v \in Workers \ {w} :
          /\ session[v].at = "flushed" /\ ~session[v].found
          /\ ~UniqueDeviceNames(<<NewDevice(session[v].sensor_type, session[v].data),
                                  NewDevice(session[w].sensor_type, session[w].data)>>)

\* the INSERT of w's Device collides with a committed Device
InsertCollides(w) ==
    /\ ~session[w].found
    /\ ~UniqueDeviceNames(Append(pg.devices,
                                 NewDevice(session[w].sensor_type, session[w].data)))

\* line 185: flush() sends the Device and then the measurement; an
\* IntegrityError rolls back and the call returns None (lines 196-200)
Flush(w) ==
    /\ session[w].at = "queried"
    /\ ~InsertWaits(w)
    /\ LET t == session[w]
           id == pg.serial[t.sensor_type] + 1
       IN  IF InsertCollides(w)
           THEN /\ session' = [session EXCEPT ![w] =
                       [NoSession EXCEPT !.result = "IntegrityError",
                                         !.sensor_type = t.sensor_type,
                                         !.data = t.data]]
                /\ pg' = pg
           ELSE IF ~CheckConstraintsOk(t.sensor_type,
                                       MeasurementRow(t.sensor_type, t.data, id))
           THEN /\ session' = [session EXCEPT ![w] =
                       [NoSession EXCEPT !.result = "CheckViolation",
                                         !.sensor_type = t.sensor_type,
                                         !.data = t.data]]
                /\ pg' = [pg EXCEPT !.serial[t.sensor_type] = id]
           ELSE /\ session' = [session EXCEPT ![w].at = "flushed", ![w].id = id]
                /\ pg' = [pg EXCEPT !.serial[t.sensor_type] = id]
    /\ UNCHANGED <<redis, calls, raceUnchanged>>

\* what _check_alerts (line 188) does for the flushed measurement of w
AlertsOfSession(w) ==
    _check_alerts(session[w].sensor_type, session[w].data, session[w].id, redis,
                  "none")

\* lines 188-191: the alerts, then the commit makes the rows visible
Commit(w) ==
    /\ session[w].at = "flushed"
    /\ LET t == session[w]
       IN  pg' = [pg EXCEPT
                    !.devices = IF t.found THEN DeviceRefresh(@, t.data)
                                ELSE Append(@, NewDevice(t.sensor_type, t.data)),
                    !.measurements[t.sensor_type] =
                        InsertMeasurement(@, MeasurementRow(t.sensor_type, t.data, t.id)),
                    !.alerts = @ \o AlertsOfSession(w).rows]
    /\ redis' = AlertsOfSession(w).redis
    /\ session' = [session EXCEPT ![w] =
          [NoSession EXCEPT !.result = "saved", !.sensor_type = session[w].sensor_type,
                            !.data = session[w].data, !.id = session[w].id]]
    /\ UNCHANGED <<calls, raceUnchanged>>

\* the connection is lost at the commit: rollback, the call returns None
CommitFails(w) ==
    /\ session[w].at = "flushed"
    /\ redis' = AlertsOfSession(w).redis
    /\ session' = [session EXCEPT ![w] =
          [NoSession EXCEPT !.result = "OperationalError",
                            !.sensor_type = session[w].sensor_type,
                            !.data = session[w].data]]
    /\ UNCHANGED <<pg, calls, raceUnchanged>>

NextRace ==
    \/ \E w \in Workers : Query(w)
    \/ \E w \in Workers : Flush(w)
    \/ \E w \in Workers : Commit(w)
    \/ \E w \in Workers : CommitFails(w)

SpecRace == Init /\ [][NextRace]_vars

(***************************************************************************)
(* The strict path of SensorDataETL.process_message: the validator, then   *)
(* the transform of the records it accepts.                                *)
(***************************************************************************)
\* bound: records validated
MaxValidated == 2

\* kafka_consumer_etl_fixed.py lines 422-433; v is what the validator returned
Judge(record, sensor_type, v) ==
    /\ stats' = v.stats
    /\ verdict' = [sensor_type |-> sensor_type, record |-> record,
                   valid |-> v.valid, reason |-> v.reason,
                   canonical |->
                       v.valid /\ transform_to_schema(record, sensor_type).produced,
                   before |-> stats]

ValidateAndTransform ==
    /\ stats.total_processed < MaxValidated
    /\ \E record \in KafkaRecords, sensor_type \in KafkaTypes :
          Judge(record, sensor_type,
                validate_sensor_record(record, sensor_type, stats))
    /\ UNCHANGED <<consumerVars, pc, attempt, channel, session, calls, transformed,
                   offsets>>

NextKafka == ValidateAndTransform

SpecKafka == Init /\ [][NextKafka]_vars

(***************************************************************************)
(* The permissive path on its own: one of ETLProcessor.process_air_data,    *)
(* process_sound_data, process_water_data applied to a decoded payload.    *)
(***************************************************************************)
\* the payloads: numbers inside, at the edge of, and outside each range
ETLInputs ==
    {[sensor_type |-> "aire",
      data |-> [Reading("d1", "t1") EXCEPT !.co2 = c, !.temperature = t,
                                            !.humidity = h, !.pressure = p]] :
        c \in {None, Num(0), Num(800), Num(6000)},
        t \in {None, Num(0 - 5), Num(0), Num(20), Num(55)},
        h \in {None, Num(0 - 5), Num(0), Num(50), Num(150)},
        p \in {None, Num(2000)}}
    \cup
    {[sensor_type |-> "sonido",
      data |-> [Reading("d1", "t1") EXCEPT !.laeq = l, !.lai = i, !.laimax = m]] :
        l \in {None, Num(0), Num(60), Num(130)},
        i \in {None, Num(60), Num(200)},
        m \in {None, Num(90)}}
    \cup
    {[sensor_type |-> "agua",
      data |-> [Reading("d1", "t1") EXCEPT !.water_level = l, !.distance = d]] :
        l \in {None, Num(0 - 5), Num(0), Num(50), Num(150)},
        d \in {None, Num(0), Num(30), Num(150)}}

\* main.py lines 133-138; r is what the process_* call returned
Transformed(sensor_type, data, r) ==
    transformed' = [sensor_type |-> sensor_type, input |-> data, exc |-> r.exc,
                    data |-> r.data]

Transform ==
    /\ \E m \in ETLInputs :
          Transformed(m.sensor_type, m.data, ApplyETL(m.sensor_type, m.data))
    /\ UNCHANGED <<consumerVars, pc, attempt, channel, session, calls, stats,
                   verdict, offsets>>

NextETL == Transform

SpecETL == Init /\ [][NextETL]_vars

(***************************************************************************)
(* SensorDataETL.start_processing: the loop over the messages of the       *)
(* consumer (one partition).  The iterator hands out the message at the    *)
(* position and advances it; consumer.commit() without arguments commits   *)
(* the position, the offset after the last message handed out.             *)
(***************************************************************************)
\* line 513 with the offset after the message just processed, when success
CommittedOffset(position, committed, success) ==
    IF success THEN position ELSE committed

\* lines 509-513: success is what process_message returned for the message
\* at the position
Consumed(success) ==
    offsets' = [position |-> offsets.position + 1,
                committed |-> CommittedOffset(offsets.position + 1, offsets.committed,
                                             success),
                failed |-> IF success THEN offsets.failed
                           ELSE offsets.failed \cup {offsets.position},
                success |-> success,
                committed_before |-> offsets.committed]

\* the messages of the partition: the records of the sound and water topics
\* and the records without any measurement
PartitionRecords ==
    {r \in KafkaRecords :
        \A f \in {"co2", "temperature", "humidity", "pressure"} : r[f] = None}

\* lines 402-468 and 509-513: one iteration of the loop; a writer of lines
\* 441-447 may raise, which makes process_message return False
start_processing ==
    /\ stats.total_processed < MaxValidated
    /\ \E record \in PartitionRecords, sensor_type \in KafkaTypes,
          written \in BOOLEAN :
          /\ Judge(record, sensor_type,
                   validate_sensor_record(record, sensor_type, stats))
          /\ Consumed(/\ validate_sensor_record(record, sensor_type, stats).valid
                      /\ transform_to_schema(record, sensor_type).produced
                      /\ written)
    /\ UNCHANGED <<consumerVars, pc, attempt, channel, session, calls, transformed>>

NextOffsets == start_processing

SpecOffsets == Init /\ [][NextOffsets]_vars

(***************************************************************************)
(* Properties.                                                             *)
(***************************************************************************)
Delivered == last.body.fmt # "none"

\* the delivery got as far as line 168: decoded, known sensor kind, ETL and
\* timestamp steps returned, device name present
ReachedPersistence ==
    /\ Delivered
    /\ last.exc = "none"
    /\ Decodable(last.body) /\ last.body.data_is_dict
    /\ last.body.sensor_type \in SensorTypes
    /\ last.data.device_name # ""

IssuedAcks == {last.acks[i] : i \in 1..Len(last.acks)}

\* the broker holds body for redelivery, or has just delivered it again
HeldForRedelivery(body) ==
    \/ \E i \in 1..Len(requeued) : requeued[i] = body
    \/ \E i \in 1..Len(unacked) : unacked[i].body = body /\ unacked[i].redelivered

Rows(store) ==
    [devices |-> store.devices, measurements |-> store.measurements,
     alerts |-> store.alerts]

MeasurementCount ==
    Len(pg.measurements["aire"]) + Len(pg.measurements["sonido"])
    + Len(pg.measurements["agua"])

\* the Alert rows of one measurement and one alert type
AlertsOf(sensor_type, id, type) ==
    {i \in 1..Len(pg.alerts) :
        /\ pg.alerts[i].sensor_type = sensor_type
        /\ pg.alerts[i].measurement_id = id
        /\ pg.alerts[i].alert_type = type}

\* C1: a delivery whose body cannot be decoded into an envelope (invalid
\* UTF-8, invalid JSON, or JSON that is not an object) is answered with a
\* negative acknowledgment without requeue and is not held for redelivery.
C1_UndecodableIsDropped ==
    (Delivered /\ ~Decodable(last.body)) =>
        /\ last.acks = <<"nack_drop">>
        /\ \A i \in 1..Len(requeued) : requeued[i] # last.body

\* C2: when the durable store is down while a valid record is processed, the
\* message is not positively acknowledged: it is requeued for redelivery.
C2_OutageIsRedelivered ==
    (ReachedPersistence /\ last.faults.pg = "query") =>
        /\ "ack" \notin IssuedAcks
        /\ HeldForRedelivery(last.body)

\* C3: an exception other than a JSON decode error raised while a decoded
\* message is handled gives exactly one negative acknowledgment with requeue
\* and one increment of error_count; the message is held for redelivery and
\* is not positively acknowledged.
C3_ProcessingErrorIsRequeued ==
    (Delivered /\ Decodable(last.body) /\ last.exc # "none") =>
        /\ last.exc # "JSONDecodeError"
        /\ last.acks = <<"nack_requeue">>
        /\ error_count = last.before.error_count + 1
        /\ HeldForRedelivery(last.body)

\* C3 witness: the ETL step raised on a decoded air record
C3_Witness ==
    /\ Delivered /\ Decodable(last.body) /\ last.body.data_is_dict
    /\ last.body.sensor_type = "aire"
    /\ last.exc = "TypeError"
    /\ last.acks = <<"nack_requeue">>

\* C4: when both sink calls have returned, the message is acknowledged
\* positively whatever the sinks reported, error_count grows by one for each
\* sink that reported failure, and the message is not requeued.
C4_SinkFailuresAreAcked ==
    (Delivered /\ last.sinks = <<"save_to_postgres", "save_to_redis">>) =>
        /\ last.acks = <<"ack">>
        /\ error_count = last.before.error_count
                         + (IF last.postgres_id = 0 THEN 1 ELSE 0)
                         + (IF last.redis_ok THEN 0 ELSE 1)
        /\ "nack_requeue" \notin IssuedAcks
        /\ \A i \in 1..Len(requeued) : requeued[i] # last.body

\* C4 witness: both sinks reported failure and the message was acknowledged
C4_Witness ==
    /\ last.sinks = <<"save_to_postgres", "save_to_redis">>
    /\ last.postgres_id = 0 /\ ~last.redis_ok
    /\ last.acks = <<"ack">>
    /\ error_count = last.before.error_count + 2

\* one Device row for every device name that has a measurement, none otherwise
OneDevicePerName ==
    \A d \in DeviceNames :
        Cardinality(DeviceIndexes(pg.devices, d)) =
            IF \E k \in SensorTypes : \E i \in 1..Len(pg.measurements[k]) :
                   pg.measurements[k][i].device_name = d
            THEN 1 ELSE 0

\* C5: after any sequence of save_to_postgres calls there is exactly one
\* Device row per device name that was saved, and as many Measurement rows
\* as calls that returned an id.
C5_OneDeviceManyMeasurements ==
    /\ MeasurementCount = saved
    /\ OneDevicePerName

\* C5 witness: the same record saved twice, one Device row, two Measurement
\* rows that differ in their id only
C5_Witness ==
    \E k \in SensorTypes :
        /\ Len(pg.measurements[k]) = 2
        /\ pg.measurements[k][1].id # pg.measurements[k][2].id
        /\ [pg.measurements[k][1] EXCEPT !.id = 0]
             = [pg.measurements[k][2] EXCEPT !.id = 0]
        /\ Len(pg.devices) = 1
        /\ saved = 2

\* C6: after every save_to_redis call, successful or not, every history list
\* holds at most 10,000 entries, and after a successful call the head of the
\* list of the record's device is the entry of that call.
C6_HistoryBounded ==
    /\ \A k \in SensorTypes \X DeviceNames :
          LLen(redis.history[k]) <= HistoryStop + 1
    /\ (ReachedPersistence /\ last.redis_ok) =>
          LET l == redis.history[<<last.body.sensor_type, last.data.device_name>>]
          IN  l # <<>> /\ LIndex0(l) = HistoryEntry(last.data)

\* the alerts the rules require for a stored measurement
RequiredAlerts(sensor_type, row) == alerts_to_create(sensor_type, row)

\* a step of save_to_postgres failed during the last delivery
StepFailed ==
    \/ last.faults.pg # "none"
    \/ last.alerts_raised
    \/ last.postgres_id = 0

\* C7: save_to_postgres is atomic.  When a step of the call fails (device
\* upsert, measurement insert, alert evaluation, alert insert, commit) the
\* call returns no id and leaves no row behind; a call that returns an id has
\* stored the measurement and every alert its rules require.
C7_DurableWriteIsAtomic ==
    ReachedPersistence =>
        /\ StepFailed => (last.postgres_id = 0 /\ Rows(pg) = Rows(last.before.pg))
        /\ last.postgres_id # 0 =>
              \E i \in 1..Len(pg.measurements[last.body.sensor_type]) :
                  LET row == pg.measurements[last.body.sensor_type][i]
                      need == RequiredAlerts(last.body.sensor_type, row)
                  IN  /\ row.id = last.postgres_id
                      /\ \A j \in 1..Len(need) :
                            AlertsOf(last.body.sensor_type, row.id, need[j].type) # {}

\* C8: for every record that reaches persistence save_to_redis is called
\* exactly once, after save_to_postgres and whatever it returned, and the
\* durable store holds exactly what save_to_postgres left, whatever
\* save_to_redis returned.
C8_SinksAreIndependent ==
    ReachedPersistence =>
        /\ last.sinks = <<"save_to_postgres", "save_to_redis">>
        /\ last.postgres_id # 0 =>
              /\ MeasurementCount =
                    Len(last.before.pg.measurements["aire"])
                    + Len(last.before.pg.measurements["sonido"])
                    + Len(last.before.pg.measurements["agua"]) + 1
              /\ \E i \in 1..Len(pg.measurements[last.body.sensor_type]) :
                    pg.measurements[last.body.sensor_type][i].id = last.postgres_id
        /\ last.postgres_id = 0 => Rows(pg) = Rows(last.before.pg)
        /\ (last.faults.rd = "none") => last.redis_ok

\* C8 witness: the durable write failed, the cache write was made and
\* succeeded
C8_Witness ==
    /\ ReachedPersistence
    /\ last.postgres_id = 0
    /\ last.redis_ok
    /\ LIndex0(redis.history[<<last.body.sensor_type, last.data.device_name>>])
          = HistoryEntry(last.data)

\* C8 second case: the cache write failed and the durable write stayed
C8_WitnessCacheDown ==
    /\ ReachedPersistence
    /\ last.postgres_id # 0
    /\ ~last.redis_ok

\* C9: an air measurement has a high_co2 alert if and only if its CO2 is
\* above 1000, never more than one, of severity high above 2000 and medium
\* otherwise.
C9_Co2Alert ==
    \A i \in 1..Len(pg.measurements["aire"]) :
        LET row == pg.measurements["aire"][i]
            found == AlertsOf("aire", row.id, "high_co2")
        IN  /\ Cardinality(found) = IF IsNum(row.co2) /\ row.co2.v > 1000 THEN 1 ELSE 0
            /\ \A a \in found :
                  pg.alerts[a].severity = IF row.co2.v > 2000 THEN "high" ELSE "medium"

\* C10: a water measurement with a level in [0, 20) has exactly one
\* low_water_level alert, of severity high below 10 and medium otherwise; a
\* level of 20 or more has none.
C10_LowWaterAlert ==
    \A i \in 1..Len(pg.measurements["agua"]) :
        LET row == pg.measurements["agua"][i]
            found == AlertsOf("agua", row.id, "low_water_level")
        IN  IsNum(row.water_level) =>
              /\ Cardinality(found) =
                    IF row.water_level.v >= 0 /\ row.water_level.v < 20 THEN 1 ELSE 0
              /\ \A a \in found :
                    pg.alerts[a].severity =
                        IF row.water_level.v < 10 THEN "high" ELSE "medium"

\* C11: for every sensor kind, a measurement with a battery value in [0, 20)
\* has exactly one low_battery alert, of severity medium, whatever other
\* alerts it has; a battery value of 20 or more has none.
C11_LowBatteryAlert ==
    \A k \in SensorTypes : \A i \in 1..Len(pg.measurements[k]) :
        LET row == pg.measurements[k][i]
            found == AlertsOf(k, row.id, "low_battery")
        IN  IsNum(row.battery) =>
              /\ Cardinality(found) =
                    IF row.battery.v >= 0 /\ row.battery.v < 20 THEN 1 ELSE 0
              /\ \A a \in found : pg.alerts[a].severity = "medium"

\* C12: an air measurement with a temperature above 30 has one medium
\* high_temperature alert, one with a temperature below 10 has one medium
\* low_temperature alert, one with a temperature in [10, 30] has neither, and
\* no measurement has both.
C12_TemperatureAlerts ==
    \A i \in 1..Len(pg.measurements["aire"]) :
        LET row == pg.measurements["aire"][i]
            high == AlertsOf("aire", row.id, "high_temperature")
            low == AlertsOf("aire", row.id, "low_temperature")
        IN  IsNum(row.temperature) =>
              /\ Cardinality(high) = IF row.temperature.v > 30 THEN 1 ELSE 0
              /\ Cardinality(low) = IF row.temperature.v < 10 THEN 1 ELSE 0
              /\ high = {} \/ low = {}
              /\ \A a \in high \cup low : pg.alerts[a].severity = "medium"

\* the latest-alert entry the cache holds for an Alert row
LatestEntry(row) == redis.alert[<<row.device_name, row.alert_type>>]

\* C13: every alert generated for a record has its latest-alert entry in the
\* cache with a TTL of one hour, and after a record is stored the entry of
\* each of its alerts holds that alert: the most recently generated one of
\* its device and type.
C13_LatestAlertMirrored ==
    \A i \in 1..Len(pg.alerts) :
        /\ LatestEntry(pg.alerts[i]) # NoAlert
        /\ redis.alert_ttl[<<pg.alerts[i].device_name, pg.alerts[i].alert_type>>] = 3600
        /\ (/\ ReachedPersistence
            /\ pg.alerts[i].sensor_type = last.body.sensor_type
            /\ pg.alerts[i].measurement_id = last.postgres_id) =>
              LatestEntry(pg.alerts[i]) =
                  [severity |-> pg.alerts[i].severity,
                   value |-> safe_str(pg.alerts[i].value), timestamp |-> "now"]

\* C14: after a successful save_to_redis the device hash holds the values of
\* the record, the device is in the active set of its kind, and the device
\* hash, the history list and the active set have each had their TTL set.
C14_CacheWriteRefreshesTtls ==
    (ReachedPersistence /\ last.redis_ok) =>
        LET name == last.data.device_name
            kind == last.body.sensor_type
        IN  /\ redis.device[name] = DeviceHash(redis.device[name], kind, last.data)
            /\ name \in redis.active[kind]
            /\ redis.device_ttl[name] = 2592000
            /\ redis.active_ttl[kind] = 2592000
            /\ redis.history_ttl[<<kind, name>>] = 2592000

C16_ConnectTerminates ==
    /\ [](pc = "connect_rabbitmq" => attempt < max_retries)
    /\ <>(pc # "connect_rabbitmq")
    /\ [][(pc = "connect_rabbitmq" /\ pc' = "connect_databases") =>
            /\ channel'.open
            /\ channel'.queues = SensorTypes
            /\ channel'.prefetch = 1]_vars
    /\ [][(pc = "connect_rabbitmq" /\ pc' = "exited") =>
            attempt = max_retries - 1]_vars
    /\ [](pc = "exited" =>
            /\ channel.consumers = {}
            /\ deliveries = 0
            /\ unacked = <<>>)

\* C16 witness: the fifth attempt failed and main returned
C16_Witness ==
    /\ pc = "exited"
    /\ attempt = max_retries - 1
    /\ channel.consumers = {}
    /\ deliveries = 0

\* C17: whatever the interleaving of the save_to_postgres calls of several
\* consumer processes, the durable store never holds two Device rows with
\* the same device_name.
C17_NoDuplicateDevice ==
    \A d \in DeviceNames : Cardinality(DeviceIndexes(pg.devices, d)) <= 1

\* C17 witness: two processes found no Device d1 and both inserted one; the
\* unique index let one commit and failed the other, whose call returned None
C17_Witness ==
    \E w \in Workers, v \in Workers :
        /\ session[w].result = "IntegrityError"
        /\ session[w].data.device_name = "d1"
        /\ session[v].result = "saved"
        /\ session[v].data.device_name = "d1"
        /\ Cardinality(DeviceIndexes(pg.devices, "d1")) = 1

\* a verdict of the validator is recorded
Judged == verdict.sensor_type # ""

\* C18: a payload whose fields are all null or empty (or that has no fields) is
\* rejected with the reason "empty", and of the outcome counters only the
\* empty-records counter advances.
C18_EmptyPayloadRejected ==
    (Judged /\ \A f \in DOMAIN verdict.record : Blank(verdict.record[f]))
        => /\ ~verdict.valid
           /\ ~verdict.canonical
           /\ verdict.reason = "Registro completamente vacio"
           /\ stats.empty_records = verdict.before.empty_records + 1
           /\ stats.invalid_records = verdict.before.invalid_records
           /\ stats.valid_records = verdict.before.valid_records
           /\ stats.rejection_reasons =
                 [verdict.before.rejection_reasons EXCEPT
                     !["REGISTRO_COMPLETAMENTE_VACIO"] = @ + 1]

\* a payload of keys holding '' and NaN was rejected as empty after a record
\* that was rejected as invalid
C18_Witness ==
    /\ Judged
    /\ verdict.record.id = Empty /\ verdict.record.co2 = NaN
    /\ verdict.reason = "Registro completamente vacio"
    /\ stats.empty_records = 1 /\ stats.invalid_records = 1

\* the record has a value in the field: not None, not '' and not nan, as
\* is_completely_empty and the measurement test count values
Has(record, f) == ~Blank(record[f])

\* the measurement fields of the verdict's sensor type
MeasurementFields == _get_measurement_fields(verdict.sensor_type)

\* C19: validate_sensor_record applies its rules in the order emptiness,
\* identity, presence, range and stops at the first failure: a non-empty
\* record lacking the identifier or the timestamp is rejected as missing
\* required fields whatever its measurements are, and a record is rejected
\* as without measurement only if it has both identity fields and none of
\* its measurement fields has a value.
C19_RulesInOrder ==
    Judged =>
        /\ (/\ \E f \in DOMAIN verdict.record : Has(verdict.record, f)
            /\ ~Has(verdict.record, "id") \/ ~Has(verdict.record, "time"))
               => /\ ~verdict.valid
                  /\ verdict.reason = "Campos requeridos faltantes"
                  /\ stats.rejection_reasons =
                        [verdict.before.rejection_reasons EXCEPT
                            !["CAMPOS_REQUERIDOS_FALTANTES"] = @ + 1]
        /\ verdict.reason = "Sin datos de medicion"
               => /\ Has(verdict.record, "id") /\ Has(verdict.record, "time")
                  /\ \A f \in MeasurementFields : ~Has(verdict.record, f)
        /\ verdict.reason = "Validacion especifica fallida"
               => /\ Has(verdict.record, "id") /\ Has(verdict.record, "time")
                  /\ \E f \in MeasurementFields : Has(verdict.record, f)

\* C19 for the records whose identifier and timestamp are not nan
C19_RulesInOrderWithoutNaN ==
    (verdict.record.id # NaN /\ verdict.record.time # NaN) => C19_RulesInOrder

\* a record with a CO2 reading and nan for identifier was accepted
C19_NaNIdentifierAccepted ==
    /\ Judged
    /\ verdict.record.id = NaN /\ verdict.record.co2 = Num(800)
    /\ verdict.valid

\* the numeric fields of a sensor type and the field type that declares
\* their range
DeclaredRanges(sensor_type) ==
    IF sensor_type = "air_quality"
    THEN {<<"co2", "co2">>, <<"temperature", "temperature">>,
          <<"humidity", "humidity">>, <<"pressure", "pressure">>}
    ELSE IF sensor_type = "sound" THEN {<<"LAeq", "sound_level">>}
    ELSE {<<"distance", "distance">>}

\* a number of the record lies outside the range declared for its field
SomeFieldOutOfRange(record, sensor_type) ==
    \E fr \in DeclaredRanges(sensor_type) :
        /\ IsNum(record[fr[1]])
        /\ ~NumIn(record[fr[1]], Ranges[fr[2]][1], Ranges[fr[2]][2])

\* C20: in strict mode (validate_sensor_record, then transform_to_schema) a
\* record with a present numeric field outside its declared range is rejected
\* as a whole: no canonical record is produced for it.
C20_StrictRejectsOutOfRange ==
    (Judged /\ SomeFieldOutOfRange(verdict.record, verdict.sensor_type))
        => ~verdict.canonical

\* C20 for the fields the transform does check: co2, temperature, LAeq, distance
C20_CheckedFieldsOnly ==
    (/\ Judged
     /\ \E fr \in DeclaredRanges(verdict.sensor_type) \
                    {<<"humidity", "humidity">>, <<"pressure", "pressure">>} :
           /\ IsNum(verdict.record[fr[1]])
           /\ ~NumIn(verdict.record[fr[1]], Ranges[fr[2]][1], Ranges[fr[2]][2]))
        => ~verdict.canonical

\* an air record with CO2 800 and humidity 150 became a canonical record
C20_HumidityOutOfRangeKept ==
    /\ Judged /\ verdict.sensor_type = "air_quality"
    /\ verdict.record.co2 = Num(800) /\ verdict.record.humidity = Num(150)
    /\ verdict.canonical

\* a sound record with LAeq 130 was rejected by the validator
C20_SoundOutOfRangeRejected ==
    /\ Judged /\ verdict.sensor_type = "sound"
    /\ verdict.record.LAeq = Num(130)
    /\ ~verdict.valid /\ ~verdict.canonical

\* a process_* call has returned
TransformReturned == transformed.sensor_type # "" /\ transformed.exc = "none"

\* the numeric measurement fields a process_* call validates, with the domain
\* range of each
DomainRanges ==
    [co2 |-> Ranges.co2, temperature |-> Ranges.temperature,
     humidity |-> Ranges.humidity, pressure |-> Ranges.pressure,
     laeq |-> Ranges.sound_level, water_level |-> <<0, 100>>]

\* a value is null or a number within the domain range of field f
NullOrInRange(x, f) == x = None \/ NumIn(x, DomainRanges[f][1], DomainRanges[f][2])

\* the fields of a payload that no process_* call derives
CarriedFields ==
    {"device_name", "timestamp", "battery", "lai", "laimax", "distance",
     "latitude", "longitude"}

\* C21: after process_air_data, process_sound_data or process_water_data every
\* numeric measurement field of the result (co2, temperature, humidity,
\* pressure, laeq, water_level) is null or within its domain range, and
\* nulling an out-of-range value changes no other input field.
C21_NullOrInRange ==
    TransformReturned =>
        /\ \A f \in DOMAIN DomainRanges : NullOrInRange(transformed.data[f], f)
        /\ \A f \in CarriedFields : transformed.data[f] = transformed.input[f]
        /\ \A f \in DOMAIN DomainRanges :
              (transformed.input[f] # None /\ NullOrInRange(transformed.input[f], f)
               /\ transformed.data[f] # None)
                  => transformed.data[f] = transformed.input[f]

\* C21 for payloads without a zero measurement and without a LAI to impute
C21_WithoutZeroAndImputation ==
    (/\ \A f \in {"co2", "temperature", "pressure", "laeq"} :
           transformed.input[f] # Num(0)
     /\ transformed.input.lai = None)
        => C21_NullOrInRange

\* a CO2 reading of 0 ppm came out of process_air_data unchanged
C21_ZeroCo2Kept ==
    /\ TransformReturned /\ transformed.sensor_type = "aire"
    /\ transformed.input.co2 = Num(0) /\ transformed.data.co2 = Num(0)

\* an out-of-range LAeq was replaced by an out-of-range LAI
C21_ImputedOutOfRange ==
    /\ TransformReturned /\ transformed.sensor_type = "sonido"
    /\ transformed.input.laeq = Num(130) /\ transformed.data.laeq = Num(200)

\* C24: process_air_data derives a non-null dew_point for every record whose
\* temperature and humidity are both present after range validation with
\* humidity greater than 0, leaves dew_point null whenever humidity is
\* non-positive or either input is absent, and never raises on these inputs.
C24_DewPoint ==
    (transformed.sensor_type = "aire")
        => /\ transformed.exc = "none"
           /\ (/\ transformed.data.temperature # None
               /\ transformed.data.humidity # None
               /\ transformed.data.humidity.v > 0)
                  => transformed.data.dew_point # None
           /\ (\/ transformed.data.temperature = None
               \/ transformed.data.humidity = None
               \/ transformed.data.humidity.v <= 0)
                  => transformed.data.dew_point = None

\* C24 for the records whose temperature is not 0
C24_DewPointNonZeroTemperature ==
    transformed.input.temperature # Num(0) => C24_DewPoint

\* a record of 0 degrees and 50 % humidity came out without dew_point
C24_FreezingPointSkipped ==
    /\ TransformReturned /\ transformed.sensor_type = "aire"
    /\ transformed.data.temperature = Num(0) /\ transformed.data.humidity = Num(50)
    /\ transformed.data.dew_point = None

\* a record of 20 degrees and 50 % humidity got the dew point 9.25
C24_DewPointDerived ==
    /\ TransformReturned
    /\ transformed.data.temperature = Num(20) /\ transformed.data.humidity = Num(50)
    /\ transformed.data.dew_point = Num(925)

\* the strict transform returns None for the record of the verdict, whose
\* timestamp is missing or in no format safe_timestamp parses
StrictRejectsBadTimestamp ==
    (Judged /\ safe_timestamp(verdict.record.time) = None)
        => /\ ~transform_to_schema(verdict.record, verdict.sensor_type).produced
           /\ ~verdict.canonical

\* the last delivery reached save_to_redis, which met no fault, with a
\* timestamp that is missing or no ISO string
CachedWithBadTimestamp ==
    /\ Decodable(last.body) /\ last.body.data_is_dict
    /\ last.body.sensor_type \in SensorTypes
    /\ last.exc = "none"
    /\ last.body.data.device_name # ""
    /\ last.body.data.timestamp \notin IsoTimestamps
    /\ last.faults.rd = "none"

\* C22: transform_to_schema returns null for every record whose timestamp is
\* missing or unparseable and never substitutes the current time, whereas
\* Consumer.process_message with save_to_redis replaces a missing or
\* unparseable timestamp by the receipt time and still persists the record.
C22_TimestampAsymmetry ==
    /\ StrictRejectsBadTimestamp
    /\ CachedWithBadTimestamp
          => /\ last.redis_ok
             /\ last.data.timestamp = "now"
             /\ redis.device[last.body.data.device_name].last_update = "now"

\* C22 for timestamps that are strings or missing
C22_StringTimestamps ==
    last.body.data.timestamp \notin NumberTimestamps => C22_TimestampAsymmetry

\* a record stamped with a number was cached under that number
C22_NumberTimestampCached ==
    /\ CachedWithBadTimestamp
    /\ last.redis_ok
    /\ redis.device[last.body.data.device_name].last_update \in NumberTimestamps

\* a record with a garbled timestamp was cached under the receipt time
C22_GarbledTimestampCached ==
    /\ CachedWithBadTimestamp
    /\ last.body.data.timestamp = "garbled"
    /\ last.redis_ok
    /\ redis.device[last.body.data.device_name].last_update = "now"

\* a valid record with a text that is no timestamp gave no canonical record
C22_StrictRejected ==
    /\ Judged /\ verdict.valid /\ verdict.record.time = BadText
    /\ ~verdict.canonical

\* the positions in range(4) whose reading under keys is a number in lo..hi
AcceptedAt(record, keys, lo, hi) ==
    {i \in 1..4 : IsNum(record[keys[i]]) /\ record[keys[i]].v >= lo
                  /\ record[keys[i]].v <= hi}

RECURSIVE SumAt(_, _, _)
SumAt(record, keys, at) ==
    IF at = {} THEN 0
    ELSE LET i == CHOOSE j \in at : TRUE
         IN  record[keys[i]].v + SumAt(record, keys, at \ {i})

\* m holds the aggregates of the readings of record at the positions rssi_at
\* and snr_at
AggregatesOf(m, record, rssi_at, snr_at) ==
    /\ m.gateway_count = Cardinality(rssi_at)
    /\ IF rssi_at = {}
       THEN m.rssi_avg = None /\ m.rssi_min = None /\ m.rssi_max = None
       ELSE /\ IsNum(m.rssi_avg)
            /\ m.rssi_avg.v * Cardinality(rssi_at) = 12 * SumAt(record, RssiKeys, rssi_at)
            /\ \E i \in rssi_at : m.rssi_min = record[RssiKeys[i]]
            /\ \E i \in rssi_at : m.rssi_max = record[RssiKeys[i]]
            /\ \A i \in rssi_at : /\ m.rssi_min.v <= record[RssiKeys[i]].v
                                  /\ m.rssi_max.v >= record[RssiKeys[i]].v
    /\ IF snr_at = {}
       THEN m.snr_avg = None
       ELSE /\ IsNum(m.snr_avg)
            /\ m.snr_avg.v * Cardinality(snr_at) = 12 * SumAt(record, SnrKeys, snr_at)

\* C23: extract_signal_metrics looks at no more than 4 gateway readings,
\* accepts an RSSI only within [-130, 0] and an SNR only within [-20, 20],
\* computes the RSSI mean, min and max over the accepted RSSI values only,
\* sets gateway_count to their number, and returns null aggregates, not zero,
\* when no reading is accepted.
C23_SignalMetrics ==
    Judged =>
        AggregatesOf(extract_signal_metrics(verdict.record), verdict.record,
                     AcceptedAt(verdict.record, RssiKeys, 0 - 130, 0),
                     AcceptedAt(verdict.record, SnrKeys, 0 - 20, 20))

\* the readings [-140, -90, -60, -200] and a fifth gateway at -50 gave the
\* mean -75 of [-90, -60], the minimum -90, the maximum -60 and gateway_count 2
C23_Witness ==
    /\ Judged
    /\ verdict.record.rssi0 = Num(0 - 140) /\ verdict.record.rssi1 = Num(0 - 90)
    /\ verdict.record.rssi2 = Num(0 - 60) /\ verdict.record.rssi3 = Num(0 - 200)
    /\ verdict.record.rssi4 = Num(0 - 50)
    /\ verdict.record.snr0 = None /\ verdict.record.snr3 = None
    /\ extract_signal_metrics(verdict.record) =
          [rssi_avg |-> Num(0 - 900), snr_avg |-> None, rssi_min |-> Num(0 - 90),
           rssi_max |-> Num(0 - 60), gateway_count |-> 2]

\* the Device row of a name (the first one, as .first() returns it)
DeviceOf(devices, name) ==
    devices[CHOOSE i \in DeviceIndexes(devices, name) :
                \A k \in DeviceIndexes(devices, name) : i <= k]

\* the last delivery was saved by save_to_postgres and its device was known
SavedForKnownDevice ==
    /\ last.postgres_id # 0
    /\ DeviceIndexes(last.before.pg.devices, last.data.device_name) # {}

\* C25: for a record of an already known device save_to_postgres sets the
\* device's last_seen to the record's timestamp and its battery_level to the
\* record's battery value whenever the record carries one, leaves device_name,
\* sensor kind, latitude, longitude and is_active unchanged, and no call
\* deletes a Device row.
C25_DeviceRefreshed ==
    /\ \A i \in 1..Len(last.before.pg.devices) :
          DeviceIndexes(pg.devices, last.before.pg.devices[i].device_name) # {}
    /\ SavedForKnownDevice =>
          LET old == DeviceOf(last.before.pg.devices, last.data.device_name)
              new == DeviceOf(pg.devices, last.data.device_name)
          IN  /\ new.last_seen = last.data.timestamp
              /\ last.data.battery # None
                    => new.battery_level = to_decimal_or_none(last.data.battery)
              /\ last.data.battery = None => new.battery_level = old.battery_level
              /\ new.device_name = old.device_name
              /\ new.sensor_type = old.sensor_type
              /\ new.latitude = old.latitude
              /\ new.longitude = old.longitude
              /\ new.is_active = old.is_active

\* C25 for records whose battery is not exactly 0
C25_NonZeroBattery ==
    last.data.battery # Num(0) => C25_DeviceRefreshed

\* a record with battery 0 left the device at its earlier battery level
C25_FlatBatteryNotRecorded ==
    /\ SavedForKnownDevice
    /\ last.data.battery = Num(0)
    /\ DeviceOf(pg.devices, last.data.device_name).battery_level # Num(0)

\* a record of another kind refreshed the battery of a known device
C25_Refreshed ==
    /\ SavedForKnownDevice
    /\ last.data.battery = Num(50)
    /\ DeviceOf(last.before.pg.devices, last.data.device_name).battery_level
          = Num(15)
    /\ DeviceOf(pg.devices, last.data.device_name).battery_level = Num(50)
    /\ DeviceOf(pg.devices, last.data.device_name).sensor_type
          # last.body.sensor_type

\* process_message has run on a delivery
Handled == last.body # NoDelivery.body

\* the control path the last invocation of process_message took
ControlPath ==
    IF last.exc = "JSONDecodeError" THEN "decode error"
    ELSE IF last.exc # "none" THEN "other exception"
    ELSE IF last.body.sensor_type \notin SensorTypes THEN "unknown sensor kind"
    ELSE IF last.data.device_name = "" THEN "missing device name"
    ELSE "success"

\* C26: every invocation of process_message issues exactly one acknowledgment
\* decision for its delivery on every control path: one of ack, nack with
\* requeue, nack without requeue, never none and never two.
C26_ExactlyOneDecision ==
    Handled =>
        /\ Len(last.acks) = 1
        /\ last.acks[1] =
              CASE ControlPath = "decode error" -> "nack_drop"
                [] ControlPath = "other exception" -> "nack_requeue"
                [] OTHER -> "ack"

\* a record without device name was acknowledged once and reached no sink
C26_Witness ==
    /\ Handled /\ ControlPath = "missing device name"
    /\ last.acks = <<"ack">> /\ last.sinks = <<>>

\* each of the other control paths was taken
C26_PathUnknownKind == Handled /\ ControlPath = "unknown sensor kind"

C26_PathSuccess == Handled /\ ControlPath = "success" /\ last.postgres_id # 0

C26_PathDecodeError == Handled /\ ControlPath = "decode error"

C26_PathOtherException ==
    Handled /\ ControlPath = "other exception" /\ last.exc = "TypeError"

\* the committed Alert rows of a device and an alert type
CommittedAlerts(name, type) ==
    {i \in 1..Len(pg.alerts) :
        pg.alerts[i].device_name = name /\ pg.alerts[i].alert_type = type}

\* C27: the latest-alert cache never runs ahead of the durable store: an entry
\* alert:{device}:{type}:latest exists only if an Alert row of that device and
\* type, with the entry's severity and value, was committed, so a rolled-back
\* save_to_postgres call leaves no entry behind.
C27_AlertCacheBehindStore ==
    \A k \in DeviceNames \X AlertTypes :
        redis.alert[k] # NoAlert =>
            \E i \in CommittedAlerts(k[1], k[2]) :
                /\ pg.alerts[i].severity = redis.alert[k].severity
                /\ safe_str(pg.alerts[i].value) = redis.alert[k].value

\* the commit failed, save_to_postgres returned None, and the entry of the
\* alert it had mirrored is in the cache with no Alert row in the store
C27_OrphanEntry ==
    /\ Handled /\ last.faults.pg = "commit" /\ last.postgres_id = 0
    /\ redis.alert[<<"d1", "high_co2">>] # NoAlert
    /\ pg.alerts = <<>>

\* the sum of the rejection-reason histogram
RejectionsLogged ==
    stats.rejection_reasons["REGISTRO_COMPLETAMENTE_VACIO"]
    + stats.rejection_reasons["CAMPOS_REQUERIDOS_FALTANTES"]
    + stats.rejection_reasons["SIN_DATOS_MEDICION"]
    + stats.rejection_reasons["VALIDACION_ESPECIFICA_FALLIDA"]

\* the outcome counters the last call advanced, each by one
CountersAdvanced ==
    {c \in {"valid_records", "empty_records", "invalid_records"} :
        stats[c] = verdict.before[c] + 1}

\* C28: after any sequence of validate_sensor_record calls total_processed =
\* valid_records + empty_records + invalid_records, each call increments
\* exactly one of the three, and the sum of the rejection-reason histogram
\* equals empty_records + invalid_records.
C28_CountersAddUp ==
    /\ stats.total_processed
          = stats.valid_records + stats.empty_records + stats.invalid_records
    /\ RejectionsLogged = stats.empty_records + stats.invalid_records
    /\ Judged =>
          /\ stats.total_processed = verdict.before.total_processed + 1
          /\ Cardinality(CountersAdvanced) = 1
          /\ \A c \in {"valid_records", "empty_records", "invalid_records"}
                    \ CountersAdvanced : stats[c] = verdict.before[c]
          /\ verdict.valid <=> CountersAdvanced = {"valid_records"}

\* an empty record was rejected after a valid one: one valid, one empty, one
\* entry in the histogram
C28_Witness ==
    /\ Judged /\ ~verdict.valid
    /\ stats.total_processed = 2
    /\ stats.valid_records = 1 /\ stats.empty_records = 1
    /\ RejectionsLogged = 1

\* the save_to_postgres call of process w has returned, and not because the
\* store was unreachable or refused the values of the record; process_message
\* acknowledges the delivery whatever the call returned (main.py 167-190)
ReturnedAndAcked(w) ==
    /\ session[w].at = "idle"
    /\ session[w].result \in {"saved", "IntegrityError"}

\* the measurement of the record process w handled is committed
MeasurementCommitted(w) ==
    /\ session[w].id # 0
    /\ \E i \in 1..Len(pg.measurements[session[w].sensor_type]) :
          /\ pg.measurements[session[w].sensor_type][i].id = session[w].id
          /\ pg.measurements[session[w].sensor_type][i].device_name
                = session[w].data.device_name

\* C29: when two consumer processes concurrently persist the first records of
\* the same previously unseen device, the Measurement rows of both records end
\* up committed under every interleaving: no acknowledged record loses its
\* measurement to the device-creation race.
C29_NoMeasurementLostToRace ==
    \A w \in Workers : ReturnedAndAcked(w) => MeasurementCommitted(w)

\* both processes missed device d1 in their SELECT; one committed, the other
\* got IntegrityError at its flush and its measurement is in no table
C29_MeasurementLost ==
    \E w, v \in Workers :
        /\ w # v
        /\ ReturnedAndAcked(w) /\ session[w].result = "IntegrityError"
        /\ ReturnedAndAcked(v) /\ MeasurementCommitted(v)
        /\ session[w].data.device_name = session[v].data.device_name
        /\ Len(pg.measurements["aire"]) + Len(pg.measurements["sonido"])
              + Len(pg.measurements["agua"]) = 1

\* C30: in start_processing the offset is committed only right after a message
\* for which process_message returned True, and a message for which it
\* returned False is never covered by a committed offset at any later point
\* of the run.
C30_FailedNeverCommitted ==
    /\ ~offsets.success => offsets.committed = offsets.committed_before
    /\ offsets.success => offsets.committed = offsets.position
    /\ \A o \in offsets.failed : offsets.committed <= o

\* the first half of C30: a commit only follows a success
C30_CommitOnlyAfterSuccess ==
    /\ ~offsets.success => offsets.committed = offsets.committed_before
    /\ offsets.success => offsets.committed = offsets.position

\* the message at offset 0 was rejected, the one at offset 1 succeeded, and
\* the committed offset 2 covers both
C30_FailedCovered ==
    /\ offsets.failed = {0} /\ offsets.success
    /\ offsets.position = 2 /\ offsets.committed = 2

====
